---------------------------- MODULE Spec2Model ----------------------------
(***************************************************************************)
(* A model of the symbolic-expression engine (MathExpression.h) and of the *)
(* Function layer built on it (MathFunction.h).                            *)
(*                                                                         *)
(* An expression tree is a record whose field kind names the node's class; *)
(* the other fields are the members of that class.  A double is modelled   *)
(* as an exact value in sign-magnitude form, as IEEE-754 stores it:        *)
(*     [k |-> "fin", s |-> sign, n |-> numerator, d |-> denominator]       *)
(* is the rational s*n/d in lowest terms (the two zeros are n = 0 with     *)
(* s = 1 and s = -1), [k |-> "inf", s |-> sign, ...] is an infinity and    *)
(* [k |-> "nan", ...] is a NaN.  Rounding, overflow to infinity and        *)
(* underflow are not modelled: arithmetic on finite values is exact.       *)
(***************************************************************************)
EXTENDS Integers, Sequences, FiniteSets, TLC

(***************************************************************************)
(* Bounds of the model.                                                    *)
(***************************************************************************)
\* Largest number of nodes of a generated expression tree.
MaxNodes == 3
\* Largest derivative order passed to nthDerivative.
MaxOrder == 2
\* Largest step count passed to integrate.
MaxSteps == 2
\* Largest maxIterations passed to findRoot.
MaxIterations == 2
\* Largest number of terms passed to taylorSeries.
MaxTerms == 3
\* Largest degree of a function findRoot is run on.
MaxDegree == 2

(***************************************************************************)
(* double: values and arithmetic.                                          *)
(***************************************************************************)
RECURSIVE GCD(_, _)
GCD(a, b) == IF b = 0 THEN a ELSE GCD(b, a % b)

\* The finite double s*n/d, n >= 0, d > 0, reduced to lowest terms.
Fin(s, n, d) ==
    LET g == GCD(n, d)
    IN  [k |-> "fin", s |-> s, n |-> n \div g, d |-> d \div g]

Inf(s) == [k |-> "inf", s |-> s, n |-> 1, d |-> 0]
NaN == [k |-> "nan", s |-> 1, n |-> 0, d |-> 0]
Zero(s) == [k |-> "fin", s |-> s, n |-> 0, d |-> 1]

\* The double of the rational p/q, q > 0, p of either sign (a literal such
\* as 0.5 or 1e-6, or an int converted to double when q = 1).
Ratio(p, q) == IF p < 0 THEN Fin(-1, -p, q) ELSE Fin(1, p, q)
FromInt(i) == Ratio(i, 1)

IsNaN(v) == v.k = "nan"
IsInf(v) == v.k = "inf"
IsZero(v) == v.k = "fin" /\ v.n = 0

\* Unary minus: flips the sign bit.
Neg(v) == IF IsNaN(v) THEN v ELSE [v EXCEPT !.s = -v.s]

\* std::abs: clears the sign bit.
Abs(v) == IF IsNaN(v) THEN v ELSE [v EXCEPT !.s = 1]

\* a/b < c/d for naturals a, c and positive b, d, by comparing the integer
\* parts and then the reciprocals of the fractional parts (no products).
RECURSIVE FracLess(_, _, _, _)
FracLess(a, b, c, d) ==
    LET q1 == a \div b
        q2 == c \div d
        r1 == a % b
        r2 == c % d
    IN  IF q1 # q2 THEN q1 < q2
        ELSE IF r2 = 0 THEN FALSE
        ELSE IF r1 = 0 THEN TRUE
        ELSE FracLess(d, r2, b, r1)

\* operator< on doubles: false when either side is a NaN; -0 is not below +0.
Less(x, y) ==
    IF IsNaN(x) \/ IsNaN(y) THEN FALSE
    ELSE IF IsInf(x) THEN x.s = -1 /\ ~(IsInf(y) /\ y.s = -1)
    ELSE IF IsInf(y) THEN y.s = 1
    ELSE IF IsZero(x) /\ IsZero(y) THEN FALSE
    ELSE IF x.s = -1 /\ y.s = 1 THEN TRUE
    ELSE IF x.s = 1 /\ y.s = -1 THEN FALSE
    ELSE IF x.s = 1 THEN FracLess(x.n, x.d, y.n, y.d)
    ELSE FracLess(y.n, y.d, x.n, x.d)

\* operator== on doubles: a NaN equals nothing, the two zeros are equal.
NumEq(x, y) ==
    IF IsNaN(x) \/ IsNaN(y) THEN FALSE
    ELSE IF IsZero(x) /\ IsZero(y) THEN TRUE
    ELSE x = y

\* x + y.
Add(x, y) ==
    IF IsNaN(x) \/ IsNaN(y) THEN NaN
    ELSE IF IsInf(x) /\ IsInf(y) THEN (IF x.s = y.s THEN x ELSE NaN)
    ELSE IF IsInf(x) THEN x
    ELSE IF IsInf(y) THEN y
    ELSE IF IsZero(x) /\ IsZero(y) THEN (IF x.s = y.s THEN x ELSE Zero(1))
    ELSE LET g == GCD(x.d, y.d)
             p == x.s * x.n * (y.d \div g) + y.s * y.n * (x.d \div g)
             q == (x.d \div g) * y.d
         IN  IF p = 0 THEN Zero(1) ELSE Ratio(p, q)

\* x - y.
Sub(x, y) == Add(x, Neg(y))

\* x * y.
Mul(x, y) ==
    IF IsNaN(x) \/ IsNaN(y) THEN NaN
    ELSE IF (IsInf(x) /\ IsZero(y)) \/ (IsZero(x) /\ IsInf(y)) THEN NaN
    ELSE IF IsInf(x) \/ IsInf(y) THEN Inf(x.s * y.s)
    ELSE LET g1 == GCD(x.n, y.d)
             g2 == GCD(y.n, x.d)
         IN  IF x.n = 0 \/ y.n = 0 THEN Zero(x.s * y.s)
             ELSE Fin(x.s * y.s, (x.n \div g1) * (y.n \div g2),
                      (x.d \div g2) * (y.d \div g1))

\* x / y.
Div(x, y) ==
    IF IsNaN(x) \/ IsNaN(y) THEN NaN
    ELSE IF IsInf(x) /\ IsInf(y) THEN NaN
    ELSE IF IsZero(x) /\ IsZero(y) THEN NaN
    ELSE IF IsInf(x) THEN Inf(x.s * y.s)
    ELSE IF IsInf(y) THEN Zero(x.s * y.s)
    ELSE IF IsZero(y) THEN Inf(x.s * y.s)
    ELSE IF IsZero(x) THEN Zero(x.s * y.s)
    ELSE LET g1 == GCD(x.n, y.n)
             g2 == GCD(x.d, y.d)
         IN  Fin(x.s * y.s, (x.n \div g1) * (y.d \div g2),
                 (x.d \div g2) * (y.n \div g1))

RECURSIVE IntPow(_, _)
IntPow(b, e) == IF e = 0 THEN 1 ELSE b * IntPow(b, e - 1)

\* std::pow(v, e) for an exponent e that is an integer.
Pow(v, e) ==
    LET odd == e % 2 = 1
        sgn == IF odd THEN v.s ELSE 1
        m   == IF e < 0 THEN -e ELSE e
    IN  IF e = 0 THEN FromInt(1)
        ELSE IF IsNaN(v) THEN NaN
        ELSE IF IsInf(v) THEN (IF e > 0 THEN Inf(sgn) ELSE Zero(sgn))
        ELSE IF IsZero(v) THEN (IF e > 0 THEN Zero(sgn) ELSE Inf(sgn))
        ELSE IF e > 0 THEN Fin(sgn, IntPow(v.n, m), IntPow(v.d, m))
        ELSE Fin(sgn, IntPow(v.d, m), IntPow(v.n, m))

(***************************************************************************)
(* <cmath> on the arguments where the result is a value of the model: the  *)
(* zeros, the infinities, NaN, and for std::log also 1 and the negative    *)
(* numbers.  Elsewhere the result is irrational; InMathDomain tells the    *)
(* arguments of the table from the others, and the operations below are    *)
(* only applied where Exact holds.                                         *)
(***************************************************************************)
InMathDomain(fn, v) ==
    \/ IsNaN(v) \/ IsInf(v) \/ IsZero(v)
    \/ fn = "Ln" /\ (v.s = -1 \/ v = FromInt(1))

\* std::sin, std::cos, std::exp, std::log on the arguments of the table (no
\* arm applies to an argument outside it).
StdSin(v) ==
    CASE IsZero(v) -> v
      [] IsInf(v) \/ IsNaN(v) -> NaN
StdCos(v) ==
    CASE IsZero(v) -> FromInt(1)
      [] IsInf(v) \/ IsNaN(v) -> NaN
StdExp(v) ==
    CASE IsZero(v) -> FromInt(1)
      [] IsInf(v) /\ v.s = 1 -> v
      [] IsInf(v) /\ v.s = -1 -> Zero(1)
      [] IsNaN(v) -> NaN
StdLog(v) ==
    CASE IsNaN(v) -> NaN
      [] IsZero(v) -> Inf(-1)
      [] ~IsZero(v) /\ ~IsNaN(v) /\ v.s = -1 -> NaN
      [] IsInf(v) /\ v.s = 1 -> v
      [] v = FromInt(1) -> Zero(1)

(***************************************************************************)
(* Expression nodes: one constructor per class of MathExpression.h.        *)
(***************************************************************************)
Constant(v) == [kind |-> "Constant", value |-> v]
Variable == [kind |-> "Variable"]
Sum(l, r) == [kind |-> "Sum", left |-> l, right |-> r]
Product(l, r) == [kind |-> "Product", left |-> l, right |-> r]
Power(b, e) == [kind |-> "Power", base |-> b, exponent |-> e]
Cos(a) == [kind |-> "Cos", arg |-> a]
Sin(a) == [kind |-> "Sin", arg |-> a]
Exp(a) == [kind |-> "Exp", arg |-> a]
Ln(a) == [kind |-> "Ln", arg |-> a]

UnaryKinds == {"Sin", "Cos", "Exp", "Ln"}
BinaryKinds == {"Sum", "Product"}

\* The integer an integral double stands for (the exponents of the model).
IntOf(v) == v.s * v.n

\* evaluate(x), by class.
RECURSIVE Evaluate(_, _)
Evaluate(e, x) ==
    CASE e.kind = "Constant" -> e.value
      [] e.kind = "Variable" -> x
      [] e.kind = "Sum"      -> Add(Evaluate(e.left, x), Evaluate(e.right, x))
      [] e.kind = "Product"  -> Mul(Evaluate(e.left, x), Evaluate(e.right, x))
      [] e.kind = "Power"    -> Pow(Evaluate(e.base, x), IntOf(e.exponent))
      [] e.kind = "Cos"      -> StdCos(Evaluate(e.arg, x))
      [] e.kind = "Sin"      -> StdSin(Evaluate(e.arg, x))
      [] e.kind = "Exp"      -> StdExp(Evaluate(e.arg, x))
      [] e.kind = "Ln"       -> StdLog(Evaluate(e.arg, x))

\* True when evaluate(x) applies <cmath> only to arguments of the table.
RECURSIVE Exact(_, _)
Exact(e, x) ==
    CASE e.kind \in {"Constant", "Variable"} -> TRUE
      [] e.kind \in BinaryKinds -> Exact(e.left, x) /\ Exact(e.right, x)
      [] e.kind = "Power" -> Exact(e.base, x)
      [] e.kind \in UnaryKinds ->
            Exact(e.arg, x) /\ InMathDomain(e.kind, Evaluate(e.arg, x))

\* clone(), by class.
RECURSIVE Clone(_)
Clone(e) ==
    CASE e.kind = "Constant" -> Constant(e.value)
      [] e.kind = "Variable" -> Variable
      [] e.kind = "Sum"      -> Sum(Clone(e.left), Clone(e.right))
      [] e.kind = "Product"  -> Product(Clone(e.left), Clone(e.right))
      [] e.kind = "Power"    -> Power(Clone(e.base), e.exponent)
      [] e.kind = "Cos"      -> Cos(Clone(e.arg))
      [] e.kind = "Sin"      -> Sin(Clone(e.arg))
      [] e.kind = "Exp"      -> Exp(Clone(e.arg))
      [] e.kind = "Ln"       -> Ln(Clone(e.arg))

\* Power::derivative keeping the exponent: n * f^n * f'.
PowerDerivative_SameExponent(e, db) ==
    LET coef  == Constant(e.exponent)
        pow   == Power(Clone(e.base), e.exponent)
        prod1 == Product(coef, pow)
    IN  Product(prod1, db)

\* Power::derivative with the base's derivative db: (f^n)' = n * f^(n-1) * f'.
PowerDerivative(e, db) ==
    LET coef  == Constant(e.exponent)
        pow   == Power(Clone(e.base), Sub(e.exponent, FromInt(1)))
        prod1 == Product(coef, pow)
    IN  Product(prod1, db)

\* Product::derivative dropping the term of a constant factor:
\* (c*g)' = c*g'.
ProductDerivative_Folded(e, dl, dr) ==
    IF e.left.kind = "Constant" THEN Product(Clone(e.left), dr)
    ELSE Sum(Product(dl, Clone(e.right)), Product(Clone(e.left), dr))

\* Product::derivative with the children's derivatives: (f*g)' = f'*g + f*g'.
ProductDerivative(e, dl, dr) ==
    LET term1 == Product(dl, Clone(e.right))
        term2 == Product(Clone(e.left), dr)
    IN  Sum(term1, term2)

\* Cos::derivative with the argument's derivative: (cos(f))' = -sin(f) * f'.
CosDerivative(e, da) ==
    LET minusOne == Constant(FromInt(-1))
        sinExpr  == Sin(Clone(e.arg))
        prod     == Product(minusOne, sinExpr)
    IN  Product(prod, da)

\* Ln::derivative with the factors of the product in the other order.
LnDerivative_Swapped(e, da) ==
    LET invArg == Power(Clone(e.arg), FromInt(-1))
    IN  Product(invArg, da)

\* Ln::derivative with the argument's derivative: (ln(f))' = f'/f.
LnDerivative(e, da) ==
    LET invArg == Power(Clone(e.arg), FromInt(-1))
    IN  Product(da, invArg)

\* derivative(), by class.
RECURSIVE Derivative(_)
Derivative(e) ==
    CASE e.kind = "Constant" -> Constant(FromInt(0))
      [] e.kind = "Variable" -> Constant(FromInt(1))
      [] e.kind = "Sum"      -> Sum(Derivative(e.left), Derivative(e.right))
      [] e.kind = "Product"  ->
            ProductDerivative(e, Derivative(e.left), Derivative(e.right))
      [] e.kind = "Power"    -> PowerDerivative(e, Derivative(e.base))
      [] e.kind = "Cos"      -> CosDerivative(e, Derivative(e.arg))
      [] e.kind = "Sin"      -> Product(Cos(Clone(e.arg)), Derivative(e.arg))
      [] e.kind = "Exp"      -> Product(Exp(Clone(e.arg)), Derivative(e.arg))
      [] e.kind = "Ln"       -> LnDerivative(e, Derivative(e.arg))

(***************************************************************************)
(* toString.  A std::string is the sequence of its characters.             *)
(***************************************************************************)
\* The decimal digits of the natural number n.
RECURSIVE Digits(_)
Digits(n) ==
    LET digit == <<"0", "1", "2", "3", "4", "5", "6", "7", "8", "9">>
    IN  IF n < 10 THEN <<digit[n + 1]>>
        ELSE Digits(n \div 10) \o <<digit[(n % 10) + 1]>>

\* Largest magnitude operator<< prints without an exponent at precision 6.
FixedNotationLimit == 1000000

\* oss << value at the stream's default format (%g, precision 6): NaN, the
\* infinities, and the integral values below 10^6 in magnitude, which print
\* as their digits with the sign bit as "-" (no arm applies to other values).
FormatDouble(v) ==
    LET sign == IF v.s = -1 THEN <<"-">> ELSE <<>>
    IN  CASE IsNaN(v) -> <<"n", "a", "n">>
          [] IsInf(v) -> sign \o <<"i", "n", "f">>
          [] v.k = "fin" /\ v.d = 1 /\ v.n < FixedNotationLimit ->
                sign \o Digits(v.n)

\* toString() with Sum and Product left without their parentheses.
RECURSIVE ToStringOf_Bare(_)
ToStringOf_Bare(e) ==
    CASE e.kind = "Constant" -> FormatDouble(e.value)
      [] e.kind = "Variable" -> <<"x">>
      [] e.kind = "Sum" ->
            ToStringOf_Bare(e.left) \o <<" ", "+", " ">>
                \o ToStringOf_Bare(e.right)
      [] e.kind = "Product" ->
            ToStringOf_Bare(e.left) \o <<" ", "*", " ">>
                \o ToStringOf_Bare(e.right)
      [] e.kind = "Power" ->
            <<"(">> \o ToStringOf_Bare(e.base) \o <<")", "^">>
                    \o FormatDouble(e.exponent)
      [] e.kind = "Cos" ->
            <<"c", "o", "s", "(">> \o ToStringOf_Bare(e.arg) \o <<")">>
      [] e.kind = "Sin" ->
            <<"s", "i", "n", "(">> \o ToStringOf_Bare(e.arg) \o <<")">>
      [] e.kind = "Exp" ->
            <<"e", "x", "p", "(">> \o ToStringOf_Bare(e.arg) \o <<")">>
      [] e.kind = "Ln"  -> <<"l", "n", "(">> \o ToStringOf_Bare(e.arg) \o <<")">>

\* toString(), by class (ToString is an operator of the TLC module).
RECURSIVE ToStringOf(_)
ToStringOf(e) ==
    CASE e.kind = "Constant" -> FormatDouble(e.value)
      [] e.kind = "Variable" -> <<"x">>
      [] e.kind = "Sum" ->
            <<"(">> \o ToStringOf(e.left) \o <<" ", "+", " ">>
                    \o ToStringOf(e.right) \o <<")">>
      [] e.kind = "Product" ->
            <<"(">> \o ToStringOf(e.left) \o <<" ", "*", " ">>
                    \o ToStringOf(e.right) \o <<")">>
      [] e.kind = "Power" ->
            <<"(">> \o ToStringOf(e.base) \o <<")", "^">>
                    \o FormatDouble(e.exponent)
      [] e.kind = "Cos" -> <<"c", "o", "s", "(">> \o ToStringOf(e.arg) \o <<")">>
      [] e.kind = "Sin" -> <<"s", "i", "n", "(">> \o ToStringOf(e.arg) \o <<")">>
      [] e.kind = "Exp" -> <<"e", "x", "p", "(">> \o ToStringOf(e.arg) \o <<")">>
      [] e.kind = "Ln"  -> <<"l", "n", "(">> \o ToStringOf(e.arg) \o <<")">>

(***************************************************************************)
(* The expressions and inputs the model is run on.                         *)
(***************************************************************************)
ConstValues == {0, 2}
Exponents == {-1, 0, 1, 2}
Leaves == {Variable} \cup {Constant(FromInt(c)) : c \in ConstValues}

\* Every tree of exactly n nodes over the leaves and exponents above.
RECURSIVE TreesOfSize(_)
TreesOfSize(n) ==
    IF n = 1 THEN Leaves
    ELSE LET sub == TreesOfSize(n - 1)
         IN  {[kind |-> u, arg |-> a] : u \in UnaryKinds, a \in sub}
             \cup {Power(b, FromInt(e)) : b \in sub, e \in Exponents}
             \cup UNION {
                    {[kind |-> o, left |-> l, right |-> r] :
                        o \in BinaryKinds,
                        l \in TreesOfSize(j), r \in TreesOfSize(n - 1 - j)} :
                    j \in 1..(n - 2)}

\* The expressions built by demonstrateMathematicalAnalysis, with their names.
DemoPolynomial ==
    Sum(Sum(Power(Variable, FromInt(2)),
            Product(Constant(FromInt(2)), Variable)),
        Constant(FromInt(1)))
DemoRoot == Sum(Power(Variable, FromInt(2)), Constant(FromInt(-4)))

\* MathFunction(expr, n).
MathFunction(expr, n) == [expression |-> expr, name |-> n]

DemoFunctions ==
    { MathFunction(DemoPolynomial, <<"f">>),
      MathFunction(Sin(Variable), <<"g">>),
      MathFunction(Exp(Variable), <<"h">>),
      MathFunction(DemoRoot, <<"r">>) }

\* The default name "f" of the constructor.
DefaultName == <<"f">>

\* Expressions with a node outside its domain under a Sum and a Product:
\* ln(x) + 2 and x^-1 * x.
DomainExamples ==
    { Sum(Ln(Variable), Constant(FromInt(2))),
      Product(Power(Variable, FromInt(-1)), Variable) }

Functions ==
    {MathFunction(e, DefaultName) :
        e \in UNION {TreesOfSize(n) : n \in 1..MaxNodes} \cup DomainExamples}
    \cup DemoFunctions

Points == {FromInt(-1), FromInt(0), FromInt(1)}

\* findRoot's default tolerance 1e-6.
ToleranceDenominator == 1000000
DefaultTolerance == Ratio(1, ToleranceDenominator)
Tolerances == {DefaultTolerance, Ratio(1, 2), FromInt(0)}

\* True of the trees without a <cmath> node: evaluate is exact at every x.
RECURSIVE IsRational(_)
IsRational(e) ==
    CASE e.kind \in {"Constant", "Variable"} -> TRUE
      [] e.kind \in BinaryKinds -> IsRational(e.left) /\ IsRational(e.right)
      [] e.kind = "Power" -> IsRational(e.base)
      [] e.kind \in UnaryKinds -> FALSE

\* The degree of a tree without a <cmath> node and of its derivative: how
\* fast the numerators and denominators of Newton's iterates grow.
RECURSIVE Degree(_)
Degree(e) ==
    LET max(a, b) == IF a < b THEN b ELSE a
        abs(a) == IF a < 0 THEN -a ELSE a
    IN  CASE e.kind = "Constant" -> 0
          [] e.kind = "Variable" -> 1
          [] e.kind = "Sum" -> max(Degree(e.left), Degree(e.right))
          [] e.kind = "Product" -> Degree(e.left) + Degree(e.right)
          [] e.kind = "Power" ->
                Degree(e.base) * max(abs(IntOf(e.exponent)),
                                     abs(IntOf(e.exponent) - 1))

(***************************************************************************)
(* State.                                                                  *)
(***************************************************************************)
VARIABLES
    this,    \* the MathFunction the methods are called on: expression, name
    pc,      \* "idle", the method whose loop is running, or "done"
    call,    \* the method called last and its arguments
    locals,  \* the local variables of the running method
    ret,     \* how the last call ended: a returned value or a thrown exception
    calls,   \* how often the call has run evaluate and derivative so far
    heap,    \* the node objects in memory, by address (HeapSpec, ThreadSpec)
    threads  \* the state of each thread calling into the Function (ThreadSpec)

vars == <<this, pc, call, locals, ret, calls, heap, threads>>

NoCall == [method |-> "none"]
NoLocals == [method |-> "none"]
Pending == [how |-> "pending"]
Returned(v) == [how |-> "return", value |-> v]
Thrown(type, what) == [how |-> "throw", type |-> type, what |-> what]
NoCalls == [evaluate |-> 0, derivative |-> 0]

\* Spec takes an expression as the value of its tree: the nodes have no
\* addresses, and one thread makes the calls.
NoHeap == <<>>
NoThreads == <<>>

Init ==
    /\ this \in Functions
    /\ pc = "idle"
    /\ call = NoCall
    /\ locals = NoLocals
    /\ ret = Pending
    /\ calls = NoCalls
    /\ heap = NoHeap
    /\ threads = NoThreads

\* A method can be called when no other call is running.
CanCall == pc = "idle"

\* The caller has taken the result or caught the exception of the last call.
Return ==
    /\ pc = "done"
    /\ pc' = "idle"
    /\ call' = NoCall
    /\ locals' = NoLocals
    /\ ret' = Pending
    /\ calls' = NoCalls
    /\ UNCHANGED <<this, heap, threads>>

(***************************************************************************)
(* MathFunction::derivative and MathFunction::nthDerivative.               *)
(***************************************************************************)
\* The marker appended to the name per differentiation.
Tick == <<"'">>

\* f.derivative().
FunctionDerivative(f) ==
    MathFunction(Derivative(f.expression), f.name \o Tick)

CallDerivative ==
    /\ CanCall
    /\ call' = [method |-> "derivative"]
    /\ ret' = Returned(FunctionDerivative(this))
    /\ calls' = [evaluate |-> 0, derivative |-> 1]
    /\ pc' = "done"
    /\ locals' = NoLocals
    /\ UNCHANGED <<this, heap, threads>>

\* The differentiation loop running one pass too many.
RECURSIVE DerivativeLoop_Inclusive(_, _, _)
DerivativeLoop_Inclusive(st, i, n) ==
    IF i <= n
    THEN DerivativeLoop_Inclusive([result |-> Derivative(st.result),
                                   count |-> st.count + 1], i + 1, n)
    ELSE st

\* for (int i = 1; i < n; ++i) result = result->derivative();
\* st is the local result with the number of derivative() calls made so far.
RECURSIVE DerivativeLoop(_, _, _)
DerivativeLoop(st, i, n) ==
    IF i < n
    THEN DerivativeLoop([result |-> Derivative(st.result),
                         count |-> st.count + 1], i + 1, n)
    ELSE st

\* The naming loop starting at 1, as the differentiation loop does.
RECURSIVE NameLoop_FromOne(_, _, _)
NameLoop_FromOne(newName, i, n) ==
    IF i + 1 < n THEN NameLoop_FromOne(newName \o Tick, i + 1, n) ELSE newName

\* for (int i = 0; i < n; ++i) newName += "'";
RECURSIVE NameLoop(_, _, _)
NameLoop(newName, i, n) ==
    IF i < n THEN NameLoop(newName \o Tick, i + 1, n) ELSE newName

\* nthDerivative checking the order only after differentiating.
NthDerivative_LateCheck(f, n) ==
    LET st == DerivativeLoop([result |-> Derivative(f.expression),
                              count |-> 1], 1, n)
    IN  IF n < 0
        THEN [ret |-> Thrown("invalid_argument",
                             "Derivative order must be non-negative"),
              derivative |-> st.count]
        ELSE IF n = 0
        THEN [ret |-> Returned(MathFunction(Clone(f.expression), f.name)),
              derivative |-> st.count]
        ELSE [ret |-> Returned(MathFunction(st.result, NameLoop(f.name, 0, n))),
              derivative |-> st.count]

\* f.nthDerivative(n): how it ends, and the derivative() calls it has made.
NthDerivative(f, n) ==
    IF n < 0
    THEN [ret |-> Thrown("invalid_argument",
                         "Derivative order must be non-negative"),
          derivative |-> 0]
    ELSE IF n = 0
    THEN [ret |-> Returned(MathFunction(Clone(f.expression), f.name)),
          derivative |-> 0]
    ELSE LET st == DerivativeLoop([result |-> Derivative(f.expression),
                                   count |-> 1], 1, n)
         IN  [ret |-> Returned(MathFunction(st.result, NameLoop(f.name, 0, n))),
              derivative |-> st.count]

CallNthDerivative ==
    /\ CanCall
    /\ \E n \in -1..MaxOrder :
          LET out == NthDerivative(this, n)
          IN  /\ call' = [method |-> "nthDerivative", n |-> n]
              /\ ret' = out.ret
              /\ calls' = [evaluate |-> 0, derivative |-> out.derivative]
    /\ pc' = "done"
    /\ locals' = NoLocals
    /\ UNCHANGED <<this, heap, threads>>

(***************************************************************************)
(* MathFunction::integrate, one action per pass through its loop.          *)
(***************************************************************************)
\* The default step count of integrate, which test_MathFunction_Integration
\* and demonstrateMathematicalAnalysis pass explicitly.
DefaultSteps == 1000

\* func.integrate(0, 2, 1000) of test_MathFunction_Integration on the
\* Function of a lone Variable, and the same over [0, 1].
TestIntegrals(f) ==
    IF f = MathFunction(Variable, DefaultName)
    THEN {<<FromInt(0), FromInt(1), DefaultSteps>>,
          <<FromInt(0), FromInt(2), DefaultSteps>>}
    ELSE {}

\* The arguments integrate is called with: a, b, steps.
IntegrateCalls(f) ==
    (Points \X Points \X (-1..MaxSteps)) \cup TestIntegrals(f)

\* True when evaluate is exact at every point integrate(a, b, steps) samples.
IntegrateExact(f, a, b, steps) ==
    steps > 0 =>
        /\ Exact(f.expression, a)
        /\ Exact(f.expression, b)
        /\ \A i \in 1..(steps - 1) :
              Exact(f.expression,
                    Add(a, Mul(FromInt(i), Div(Sub(b, a), FromInt(steps)))))

\* integrate evaluating the end points before it checks the step count.
IntegrateEntry_LateCheck(f, a, b, steps) ==
    IF steps <= 0
    THEN [ret |-> Thrown("invalid_argument", "Steps must be positive"),
          locals |-> NoLocals, evaluate |-> 2]
    ELSE [ret |-> Pending,
          locals |-> [method |-> "integrate",
                      h |-> Div(Sub(b, a), FromInt(steps)),
                      sum |-> Mul(Ratio(1, 2),
                                  Add(Evaluate(f.expression, a),
                                      Evaluate(f.expression, b))),
                      i |-> 1],
          evaluate |-> 2]

\* integrate(a, b, steps) up to its loop: the exception of the step check, or
\* the locals h, sum and i the loop starts with, and the evaluate() calls made.
IntegrateEntry(f, a, b, steps) ==
    IF steps <= 0
    THEN [ret |-> Thrown("invalid_argument", "Steps must be positive"),
          locals |-> NoLocals, evaluate |-> 0]
    ELSE [ret |-> Pending,
          locals |-> [method |-> "integrate",
                      h |-> Div(Sub(b, a), FromInt(steps)),
                      sum |-> Mul(Ratio(1, 2),
                                  Add(Evaluate(f.expression, a),
                                      Evaluate(f.expression, b))),
                      i |-> 1],
          evaluate |-> 2]

\* The call is made where evaluate is exact at every point it samples.
IntegrateBegin ==
    /\ CanCall
    /\ \E args \in {c \in IntegrateCalls(this) :
                        IntegrateExact(this, c[1], c[2], c[3])} :
          LET a     == args[1]
              b     == args[2]
              steps == args[3]
              out   == IntegrateEntry(this, a, b, steps)
          IN  /\ call' = [method |-> "integrate", a |-> a, b |-> b,
                          steps |-> steps]
              /\ ret' = out.ret
              /\ locals' = out.locals
              /\ calls' = [evaluate |-> out.evaluate, derivative |-> 0]
              /\ pc' = IF out.ret = Pending THEN "integrate" ELSE "done"
    /\ UNCHANGED <<this, heap, threads>>

\* The loop condition running up to and including i = steps.
IntegrateContinues_Inclusive(i, steps) == i <= steps

\* for (int i = 1; i < steps; ++i)
IntegrateContinues(i, steps) == i < steps

\* sum += evaluate(a + i * h);
IntegrateBody(f, l, a) ==
    [l EXCEPT !.sum = Add(l.sum,
                          Evaluate(f.expression,
                                   Add(a, Mul(FromInt(l.i), l.h)))),
              !.i = l.i + 1]

IntegrateIterate ==
    /\ pc = "integrate"
    /\ IntegrateContinues(locals.i, call.steps)
    /\ locals' = IntegrateBody(this, locals, call.a)
    /\ calls' = [calls EXCEPT !.evaluate = calls.evaluate + 1]
    /\ UNCHANGED <<this, pc, call, ret, heap, threads>>

\* return sum * h;
IntegrateReturn ==
    /\ pc = "integrate"
    /\ ~IntegrateContinues(locals.i, call.steps)
    /\ ret' = Returned(Mul(locals.sum, locals.h))
    /\ pc' = "done"
    /\ UNCHANGED <<this, call, locals, calls, heap, threads>>

(***************************************************************************)
(* MathFunction::findRoot, one action per pass through its loop.           *)
(***************************************************************************)
\* The call is made on the functions without a <cmath> node and of degree at
\* most MaxDegree, whose iterates stay exact and small.
FindRootBegin ==
    /\ CanCall
    /\ IsRational(this.expression)
    /\ Degree(this.expression) <= MaxDegree
    /\ \E initialGuess \in Points, tolerance \in Tolerances,
          maxIterations \in -1..MaxIterations :
          call' = [method |-> "findRoot", initialGuess |-> initialGuess,
                   tolerance |-> tolerance, maxIterations |-> maxIterations]
    /\ locals' = [method |-> "findRoot", deriv |-> FunctionDerivative(this),
                  x |-> call'.initialGuess, i |-> 0]
    /\ calls' = [evaluate |-> 0, derivative |-> 1]
    /\ ret' = Pending
    /\ pc' = "findRoot"
    /\ UNCHANGED <<this, heap, threads>>

\* double xNew = x - fx / dfx;
NewtonStep(x, fx, dfx) == Sub(x, Div(fx, dfx))

\* The derivative check against a built-in threshold instead of the argument.
DerivativeTooSmall_Fixed(dfx, tolerance) == Less(Abs(dfx), DefaultTolerance)

\* if (std::abs(dfx) < tolerance)
DerivativeTooSmall(dfx, tolerance) == Less(Abs(dfx), tolerance)

\* if (std::abs(xNew - x) < tolerance)
Converged(xNew, x, tolerance) == Less(Abs(Sub(xNew, x)), tolerance)

\* The body of the loop returning the previous x on convergence.
FindRootBody_ReturnsOld(f, l, tolerance) ==
    LET fx   == Evaluate(f.expression, l.x)
        dfx  == Evaluate(l.deriv.expression, l.x)
        xNew == NewtonStep(l.x, fx, dfx)
    IN  IF DerivativeTooSmall(dfx, tolerance)
        THEN [ret |-> Thrown("runtime_error", "Derivative too small"),
              locals |-> l]
        ELSE IF Converged(xNew, l.x, tolerance)
        THEN [ret |-> Returned(l.x), locals |-> l]
        ELSE [ret |-> Pending, locals |-> [l EXCEPT !.x = xNew, !.i = l.i + 1]]

\* The body of the loop returning x when f(x) is zero, before any check.
FindRootBody_RootFirst(f, l, tolerance) ==
    LET fx   == Evaluate(f.expression, l.x)
        dfx  == Evaluate(l.deriv.expression, l.x)
        xNew == NewtonStep(l.x, fx, dfx)
    IN  IF NumEq(fx, FromInt(0))
        THEN [ret |-> Returned(l.x), locals |-> l]
        ELSE IF DerivativeTooSmall(dfx, tolerance)
        THEN [ret |-> Thrown("runtime_error", "Derivative too small"),
              locals |-> l]
        ELSE IF Converged(xNew, l.x, tolerance)
        THEN [ret |-> Returned(xNew), locals |-> l]
        ELSE [ret |-> Pending, locals |-> [l EXCEPT !.x = xNew, !.i = l.i + 1]]

\* The body of the loop at the locals l: the outcome that ends the call, or
\* the locals of the next pass.
FindRootBody(f, l, tolerance) ==
    LET fx   == Evaluate(f.expression, l.x)
        dfx  == Evaluate(l.deriv.expression, l.x)
        xNew == NewtonStep(l.x, fx, dfx)
    IN  IF DerivativeTooSmall(dfx, tolerance)
        THEN [ret |-> Thrown("runtime_error", "Derivative too small"),
              locals |-> l]
        ELSE IF Converged(xNew, l.x, tolerance)
        THEN [ret |-> Returned(xNew), locals |-> l]
        ELSE [ret |-> Pending, locals |-> [l EXCEPT !.x = xNew, !.i = l.i + 1]]

\* The loop condition running one pass too many.
LoopContinues_Inclusive(i, maxIterations) == i <= maxIterations

\* for (int i = 0; i < maxIterations; ++i)
LoopContinues(i, maxIterations) == i < maxIterations

FindRootIterate ==
    /\ pc = "findRoot"
    /\ LoopContinues(locals.i, call.maxIterations)
    /\ LET out == FindRootBody(this, locals, call.tolerance)
       IN  /\ ret' = out.ret
           /\ locals' = out.locals
           /\ pc' = IF out.ret = Pending THEN "findRoot" ELSE "done"
    /\ calls' = [calls EXCEPT !.evaluate = calls.evaluate + 2]
    /\ UNCHANGED <<this, call, heap, threads>>

\* The exit of the loop raising the failure of the derivative check.
FindRootExhausted_SameFailure ==
    /\ pc = "findRoot"
    /\ ~LoopContinues(locals.i, call.maxIterations)
    /\ ret' = Thrown("runtime_error", "Derivative too small")
    /\ pc' = "done"
    /\ UNCHANGED <<this, call, locals, calls, heap, threads>>

\* throw std::runtime_error("Root finding did not converge");
FindRootExhausted ==
    /\ pc = "findRoot"
    /\ ~LoopContinues(locals.i, call.maxIterations)
    /\ ret' = Thrown("runtime_error", "Root finding did not converge")
    /\ pc' = "done"
    /\ UNCHANGED <<this, call, locals, calls, heap, threads>>

(***************************************************************************)
(* MathFunction::taylorSeries, one action per pass through its loop.       *)
(***************************************************************************)
\* expMath.taylorSeries(0, 6) of demonstrateMathematicalAnalysis.
DemoExp == MathFunction(Exp(Variable), <<"h">>)
DemoTerms == 6
TermCounts(f) == (-1..MaxTerms) \cup (IF f = DemoExp THEN {DemoTerms} ELSE {})

\* The call is made where evaluate is exact at the expansion point (the
\* derivatives apply <cmath> to the same arguments as the expression does).
TaylorSeriesBegin ==
    /\ CanCall
    /\ \E point \in Points, terms \in TermCounts(this) :
          /\ Exact(this.expression, point)
          /\ call' = [method |-> "taylorSeries", point |-> point,
                      terms |-> terms]
    /\ locals' = [method |-> "taylorSeries", coefficients |-> <<>>,
                  current |-> MathFunction(Clone(this.expression), this.name),
                  factorial |-> FromInt(1), i |-> 0]
    /\ calls' = NoCalls
    /\ ret' = Pending
    /\ pc' = "taylorSeries"
    /\ UNCHANGED <<this, heap, threads>>

\* The body of the loop dividing by i instead of the accumulated factorial.
TaylorSeriesBody_NoFactorial(l, point, terms) ==
    LET factorial == IF l.i > 0 THEN FromInt(l.i) ELSE l.factorial
        coef      == Div(Evaluate(l.current.expression, point), factorial)
    IN  [l EXCEPT !.factorial = factorial,
                  !.coefficients = Append(l.coefficients, coef),
                  !.current = IF l.i < terms - 1
                              THEN FunctionDerivative(l.current)
                              ELSE l.current,
                  !.i = l.i + 1]

\* The body of the loop at the locals l: the locals of the next pass.
TaylorSeriesBody(l, point, terms) ==
    LET factorial == IF l.i > 0 THEN Mul(l.factorial, FromInt(l.i))
                     ELSE l.factorial
        coef      == Div(Evaluate(l.current.expression, point), factorial)
    IN  [l EXCEPT !.factorial = factorial,
                  !.coefficients = Append(l.coefficients, coef),
                  !.current = IF l.i < terms - 1
                              THEN FunctionDerivative(l.current)
                              ELSE l.current,
                  !.i = l.i + 1]

TaylorSeriesIterate ==
    /\ pc = "taylorSeries"
    /\ locals.i < call.terms
    /\ locals' = TaylorSeriesBody(locals, call.point, call.terms)
    /\ calls' = [evaluate |-> calls.evaluate + 1,
                 derivative |-> IF locals.i < call.terms - 1
                                THEN calls.derivative + 1
                                ELSE calls.derivative]
    /\ UNCHANGED <<this, pc, call, ret, heap, threads>>

TaylorSeriesReturn ==
    /\ pc = "taylorSeries"
    /\ ~(locals.i < call.terms)
    /\ ret' = Returned(locals.coefficients)
    /\ pc' = "done"
    /\ UNCHANGED <<this, call, locals, calls, heap, threads>>

(***************************************************************************)
(* MathFunction::tabulate.                                                 *)
(***************************************************************************)
\* Largest point count passed to tabulate.
MaxPoints == 3

\* double x = start + i * step;
TabulateX(start, step, i) == Add(start, Mul(FromInt(i), step))

\* for (int i = 0; i < points; ++i) result.push_back({x, evaluate(x)});
RECURSIVE TabulateLoop(_, _, _, _, _, _)
TabulateLoop(f, result, i, points, start, step) ==
    IF i < points
    THEN LET x == TabulateX(start, step, i)
         IN  TabulateLoop(f, Append(result, <<x, Evaluate(f.expression, x)>>),
                          i + 1, points, start, step)
    ELSE result

\* The step taken as (end - start) / points.
TabulateStep_ByPoints(start, end, points) ==
    Div(Sub(end, start), FromInt(points))

\* double step = (end - start) / (points - 1);
TabulateStep(start, end, points) ==
    Div(Sub(end, start), FromInt(points - 1))

\* f.tabulate(start, end, points): how it ends, and the evaluate() calls it
\* has made.
Tabulate(f, start, end, points) ==
    LET step   == TabulateStep(start, end, points)
        result == TabulateLoop(f, <<>>, 0, points, start, step)
    IN  [ret |-> Returned(result), evaluate |-> Len(result)]

\* True when evaluate is exact at every point tabulate samples.
TabulateExact(f, start, end, points) ==
    \A i \in 0..(points - 1) :
        Exact(f.expression,
              TabulateX(start, TabulateStep(start, end, points), i))

\* The call is made where evaluate is exact at every point it samples.
CallTabulate ==
    /\ CanCall
    /\ \E start \in Points, end \in Points, points \in -1..MaxPoints :
          /\ TabulateExact(this, start, end, points)
          /\ LET out == Tabulate(this, start, end, points)
             IN  /\ call' = [method |-> "tabulate", start |-> start,
                             end |-> end, points |-> points]
                 /\ ret' = out.ret
                 /\ calls' = [evaluate |-> out.evaluate, derivative |-> 0]
    /\ pc' = "done"
    /\ locals' = NoLocals
    /\ UNCHANGED <<this, heap, threads>>

(***************************************************************************)
(* MathFunction::evaluate, MathFunction::toString and MathFunction::limit. *)
(***************************************************************************)
\* A variant of evaluate that rejects non-finite results.
FunctionEvaluate_Checked(f, x) ==
    LET v == Evaluate(f.expression, x)
    IN  IF IsNaN(v) \/ IsInf(v)
        THEN Thrown("domain_error", "Result is not finite")
        ELSE Returned(v)

\* f.evaluate(x): how it ends.
FunctionEvaluate(f, x) == Returned(Evaluate(f.expression, x))

\* The call is made where evaluate is exact.
CallEvaluate ==
    /\ CanCall
    /\ \E x \in Points :
          /\ Exact(this.expression, x)
          /\ call' = [method |-> "evaluate", x |-> x]
          /\ ret' = FunctionEvaluate(this, x)
    /\ calls' = [evaluate |-> 1, derivative |-> 0]
    /\ pc' = "done"
    /\ locals' = NoLocals
    /\ UNCHANGED <<this, heap, threads>>

\* f.toString(): name + "(x) = " + expression->toString().
FunctionToString(f) ==
    f.name \o <<"(", "x", ")", " ", "=", " ">> \o ToStringOf(f.expression)

CallToString ==
    /\ CanCall
    /\ call' = [method |-> "toString"]
    /\ ret' = Returned(FunctionToString(this))
    /\ calls' = NoCalls
    /\ pc' = "done"
    /\ locals' = NoLocals
    /\ UNCHANGED <<this, heap, threads>>

\* limit's default epsilon 1e-6.
EpsilonDenominator == 1000000
DefaultEpsilon == Ratio(1, EpsilonDenominator)
Epsilons == {DefaultEpsilon, FromInt(1)}

\* f.limit(point, epsilon): evaluate(point + epsilon).
FunctionLimit(f, point, epsilon) == FunctionEvaluate(f, Add(point, epsilon))

\* The call is made where evaluate is exact; with the default epsilon, on the
\* functions of degree at most 1 without a <cmath> node, whose values at
\* point + 1e-6 stay small.
CallLimit ==
    /\ CanCall
    /\ \E point \in Points, epsilon \in Epsilons :
          /\ epsilon = DefaultEpsilon =>
                (IsRational(this.expression) /\ Degree(this.expression) <= 1)
          /\ Exact(this.expression, Add(point, epsilon))
          /\ call' = [method |-> "limit", point |-> point,
                      epsilon |-> epsilon]
          /\ ret' = FunctionLimit(this, point, epsilon)
    /\ calls' = [evaluate |-> 1, derivative |-> 0]
    /\ pc' = "done"
    /\ locals' = NoLocals
    /\ UNCHANGED <<this, heap, threads>>

Next ==
    \/ CallDerivative
    \/ CallNthDerivative
    \/ IntegrateBegin
    \/ IntegrateIterate
    \/ IntegrateReturn
    \/ FindRootBegin
    \/ FindRootIterate
    \/ FindRootExhausted
    \/ TaylorSeriesBegin
    \/ TaylorSeriesIterate
    \/ TaylorSeriesReturn
    \/ CallTabulate
    \/ CallEvaluate
    \/ CallToString
    \/ CallLimit
    \/ Return

Spec == Init /\ [][Next]_vars

(***************************************************************************)
(* The nodes as objects in memory.  A std::shared_ptr<MathExpression> is   *)
(* the address of a node, and a node's children are addresses.  Memory is  *)
(* one arena per owner: arena 0 holds the nodes the program built before   *)
(* the calls, arena t the nodes thread t has allocated; an address is an   *)
(* arena with an index into it.  Reference counts are not kept: a node is  *)
(* alive while an address of it is held, and the nodes a call leaves       *)
(* behind are released when the caller drops the call's result.            *)
(***************************************************************************)
Address(o, k) == [owner |-> o, index |-> k]

\* *a: the node at the address a.
Load(h, a) == h[a.owner][a.index]

\* std::make_shared<Node>(...) by the owner o: the node is placed at an
\* address not in use.
MakeShared(h, o, node) ==
    [heap |-> [h EXCEPT ![o] = Append(@, node)],
     addr |-> Address(o, Len(h[o]) + 1)]

\* The member pointers of a node, in declaration order.
Children(node) ==
    CASE node.kind \in {"Constant", "Variable"} -> <<>>
      [] node.kind \in BinaryKinds -> <<node.left, node.right>>
      [] node.kind = "Power" -> <<node.base>>
      [] node.kind \in UnaryKinds -> <<node.arg>>

\* The tree that the node at a and its descendants denote.
RECURSIVE Unfold(_, _)
Unfold(h, a) ==
    LET node == Load(h, a)
    IN  CASE node.kind \in {"Constant", "Variable"} -> node
          [] node.kind \in BinaryKinds ->
                [node EXCEPT !.left = Unfold(h, node.left),
                             !.right = Unfold(h, node.right)]
          [] node.kind = "Power" -> [node EXCEPT !.base = Unfold(h, node.base)]
          [] node.kind \in UnaryKinds ->
                [node EXCEPT !.arg = Unfold(h, node.arg)]

(***************************************************************************)
(* clone() and derivative() on the nodes in memory.  A call is a stack of  *)
(* frames still to run (ctl) and the pointers computed so far (vals): a    *)
(* frame visits a node, which replaces it by the frames of the method's    *)
(* body, or makes one node from the pointers on top of vals.  The order in *)
(* which the arguments of a constructor are evaluated decides only which   *)
(* address each new node gets; they are taken left to right.               *)
(***************************************************************************)
Visit(method, a) == [op |-> method, at |-> a]
Pointer(a) == [op |-> "pointer", at |-> a]
Make(kind) == [op |-> "make", kind |-> kind, swapped |-> FALSE]
MakeSwapped(kind) == [op |-> "make", kind |-> kind, swapped |-> TRUE]
MakePower(e) == [op |-> "make", kind |-> "Power", exponent |-> e]
MakeConstant(v) == [op |-> "make", kind |-> "Constant", value |-> v]
MakeVariable == [op |-> "make", kind |-> "Variable"]

\* clone() copying the children's pointers instead of the children.
CloneFrames_Shallow(node) ==
    CASE node.kind = "Constant" -> <<MakeConstant(node.value)>>
      [] node.kind = "Variable" -> <<MakeVariable>>
      [] node.kind \in BinaryKinds ->
            <<Pointer(node.left), Pointer(node.right), Make(node.kind)>>
      [] node.kind = "Power" ->
            <<Pointer(node.base), MakePower(node.exponent)>>
      [] node.kind \in UnaryKinds -> <<Pointer(node.arg), Make(node.kind)>>

\* The body of clone(), by class.
CloneFrames(node) ==
    CASE node.kind = "Constant" -> <<MakeConstant(node.value)>>
      [] node.kind = "Variable" -> <<MakeVariable>>
      [] node.kind \in BinaryKinds ->
            <<Visit("clone", node.left), Visit("clone", node.right),
              Make(node.kind)>>
      [] node.kind = "Power" ->
            <<Visit("clone", node.base), MakePower(node.exponent)>>
      [] node.kind \in UnaryKinds ->
            <<Visit("clone", node.arg), Make(node.kind)>>

\* Product::derivative passing right and left themselves, not their clones.
ProductFrames_NoClone(node) ==
    <<Visit("derivative", node.left), Pointer(node.right), Make("Product"),
      Pointer(node.left), Visit("derivative", node.right), Make("Product"),
      Make("Sum")>>

\* The body of Product::derivative: term1, term2, their Sum.
ProductFrames(node) ==
    <<Visit("derivative", node.left), Visit("clone", node.right),
      Make("Product"),
      Visit("clone", node.left), Visit("derivative", node.right),
      Make("Product"),
      Make("Sum")>>

\* The body of derivative(), by class, statement by statement.
DerivativeFrames(node) ==
    CASE node.kind = "Constant" -> <<MakeConstant(FromInt(0))>>
      [] node.kind = "Variable" -> <<MakeConstant(FromInt(1))>>
      [] node.kind = "Sum" ->
            <<Visit("derivative", node.left), Visit("derivative", node.right),
              Make("Sum")>>
      [] node.kind = "Product" -> ProductFrames(node)
      [] node.kind = "Power" ->
            <<MakeConstant(node.exponent),
              Visit("clone", node.base),
              MakePower(Sub(node.exponent, FromInt(1))),
              Make("Product"),
              Visit("derivative", node.base), Make("Product")>>
      [] node.kind = "Cos" ->
            <<MakeConstant(FromInt(-1)),
              Visit("clone", node.arg), Make("Sin"),
              Make("Product"),
              Visit("derivative", node.arg), Make("Product")>>
      [] node.kind = "Sin" ->
            <<Visit("clone", node.arg), Make("Cos"),
              Visit("derivative", node.arg), Make("Product")>>
      [] node.kind = "Exp" ->
            <<Visit("clone", node.arg), Make("Exp"),
              Visit("derivative", node.arg), Make("Product")>>
      [] node.kind = "Ln" ->
            <<Visit("clone", node.arg), MakePower(FromInt(-1)),
              Visit("derivative", node.arg), MakeSwapped("Product")>>

\* A constructor storing its two pointers in the opposite members.
NodeOf_Reversed(fr, vals) ==
    LET n == Len(vals)
    IN  CASE fr.kind = "Constant" -> Constant(fr.value)
          [] fr.kind = "Variable" -> Variable
          [] fr.kind \in BinaryKinds ->
                IF fr.swapped
                THEN [kind |-> fr.kind, left |-> vals[n - 1], right |-> vals[n]]
                ELSE [kind |-> fr.kind, left |-> vals[n], right |-> vals[n - 1]]
          [] fr.kind = "Power" -> Power(vals[n], fr.exponent)
          [] fr.kind \in UnaryKinds -> [kind |-> fr.kind, arg |-> vals[n]]

\* The node a make frame constructs from the pointers on top of vals.
NodeOf(fr, vals) ==
    LET n == Len(vals)
    IN  CASE fr.kind = "Constant" -> Constant(fr.value)
          [] fr.kind = "Variable" -> Variable
          [] fr.kind \in BinaryKinds ->
                IF fr.swapped
                THEN [kind |-> fr.kind, left |-> vals[n], right |-> vals[n - 1]]
                ELSE [kind |-> fr.kind, left |-> vals[n - 1], right |-> vals[n]]
          [] fr.kind = "Power" -> Power(vals[n], fr.exponent)
          [] fr.kind \in UnaryKinds -> [kind |-> fr.kind, arg |-> vals[n]]

\* One step of a call by the owner o: the frame on top of ctl is run.
MachineStep(m, o) ==
    LET fr   == Head(m.ctl)
        rest == Tail(m.ctl)
    IN  CASE fr.op = "clone" ->
                [m EXCEPT !.ctl = CloneFrames(Load(m.heap, fr.at)) \o rest]
          [] fr.op = "derivative" ->
                [m EXCEPT !.ctl = DerivativeFrames(Load(m.heap, fr.at)) \o rest]
          [] fr.op = "pointer" ->
                [m EXCEPT !.ctl = rest, !.vals = Append(@, fr.at)]
          [] fr.op = "make" ->
                LET node == NodeOf(fr, m.vals)
                    out  == MakeShared(m.heap, o, node)
                    kept == Len(m.vals) - Len(Children(node))
                IN  [heap |-> out.heap, ctl |-> rest,
                     vals |-> Append(SubSeq(m.vals, 1, kept), out.addr)]

\* The steps that run the frame on top of ctl together with the frames it is
\* replaced by (RunTop), and the steps that run the frames on top of ctl
\* until no more than stop frames are left (RunFrames).
RECURSIVE RunTop(_, _)
RECURSIVE RunFrames(_, _, _)
RunTop(m, o) == RunFrames(MachineStep(m, o), o, Len(m.ctl) - 1)
RunFrames(m, o, stop) ==
    IF Len(m.ctl) <= stop THEN m ELSE RunFrames(RunTop(m, o), o, stop)

\* The call run to its end, step by step.
RunMachine(m, o) == RunFrames(m, o, 0)

\* a->clone() and a->derivative() called by o: the memory afterwards and the
\* pointer returned.
Call(h, o, method, a) ==
    LET m == RunMachine([heap |-> h, ctl |-> <<Visit(method, a)>>,
                         vals |-> <<>>], o)
    IN  [heap |-> m.heap, addr |-> m.vals[1]]


(***************************************************************************)
(* The Function layer on the nodes in memory: a MathFunction is the pointer *)
(* to its root node with its name.  Each operator gives the memory after    *)
(* the call, the object the call was made on (self) and how the call ends.  *)
(***************************************************************************)
\* The MathFunction whose expression is the tree the pointer f.expression
\* denotes.
ValueOf(h, f) == MathFunction(Unfold(h, f.expression), f.name)

\* derivative() differentiating the object in place.
DerivativeIn_InPlace(h, o, f) ==
    LET out == Call(h, o, "derivative", f.expression)
        d   == MathFunction(out.addr, f.name \o Tick)
    IN  [heap |-> out.heap, self |-> d, ret |-> Returned(d)]

\* f.derivative() called by o.
DerivativeIn(h, o, f) ==
    LET out == Call(h, o, "derivative", f.expression)
    IN  [heap |-> out.heap, self |-> f,
         ret |-> Returned(MathFunction(out.addr, f.name \o Tick))]

\* for (int i = 1; i < n; ++i) result = result->derivative();
\* st is the memory with the local result.
RECURSIVE DerivativeLoopIn(_, _, _, _)
DerivativeLoopIn(st, o, i, n) ==
    IF i < n
    THEN DerivativeLoopIn(Call(st.heap, o, "derivative", st.addr), o, i + 1, n)
    ELSE st

\* f.nthDerivative(n) called by o.
NthDerivativeIn(h, o, f, n) ==
    IF n < 0
    THEN [heap |-> h, self |-> f,
          ret |-> Thrown("invalid_argument",
                         "Derivative order must be non-negative")]
    ELSE IF n = 0
    THEN LET out == Call(h, o, "clone", f.expression)
         IN  [heap |-> out.heap, self |-> f,
              ret |-> Returned(MathFunction(out.addr, f.name))]
    ELSE LET st == DerivativeLoopIn(Call(h, o, "derivative", f.expression),
                                    o, 1, n)
         IN  [heap |-> st.heap, self |-> f,
              ret |-> Returned(MathFunction(st.addr, NameLoop(f.name, 0, n)))]

\* The nodes o has allocated since the memory was h are released.
Release(h, o, after) == [after EXCEPT ![o] = h[o]]

\* The loop of integrate run to its end.
RECURSIVE IntegrateRun(_, _, _, _)
IntegrateRun(f, l, a, steps) ==
    IF IntegrateContinues(l.i, steps)
    THEN IntegrateRun(f, IntegrateBody(f, l, a), a, steps)
    ELSE Returned(Mul(l.sum, l.h))

\* f.integrate(a, b, steps): how it ends.
FunctionIntegrate(f, a, b, steps) ==
    LET entry == IntegrateEntry(f, a, b, steps)
    IN  IF entry.ret = Pending
        THEN IntegrateRun(f, entry.locals, a, steps)
        ELSE entry.ret

\* The loop of findRoot run to its end.
RECURSIVE FindRootRun(_, _, _, _)
FindRootRun(f, l, tolerance, maxIterations) ==
    IF LoopContinues(l.i, maxIterations)
    THEN LET out == FindRootBody(f, l, tolerance)
         IN  IF out.ret = Pending
             THEN FindRootRun(f, out.locals, tolerance, maxIterations)
             ELSE out.ret
    ELSE Thrown("runtime_error", "Root finding did not converge")

\* f.findRoot(initialGuess, tolerance, maxIterations) called by o: deriv is
\* built, read by the loop and released when the call ends.
FindRootIn(h, o, f, initialGuess, tolerance, maxIterations) ==
    LET d == DerivativeIn(h, o, f)
        l == [method |-> "findRoot", deriv |-> ValueOf(d.heap, d.ret.value),
              x |-> initialGuess, i |-> 0]
    IN  [heap |-> Release(h, o, d.heap), self |-> d.self,
         ret |-> FindRootRun(ValueOf(d.heap, d.self), l, tolerance,
                             maxIterations)]

\* The loop of taylorSeries run to its end on the nodes in memory: l holds
\* the memory with the locals of the loop, current being a pointer.
RECURSIVE TaylorSeriesRunIn(_, _, _, _)
TaylorSeriesRunIn(l, o, point, terms) ==
    IF l.i < terms
    THEN LET factorial == IF l.i > 0 THEN Mul(l.factorial, FromInt(l.i))
                          ELSE l.factorial
             coef == Div(Evaluate(ValueOf(l.heap, l.current).expression,
                                  point), factorial)
             d    == DerivativeIn(l.heap, o, l.current)
             more == l.i < terms - 1
         IN  TaylorSeriesRunIn(
                 [heap |-> IF more THEN d.heap ELSE l.heap,
                  current |-> IF more THEN d.ret.value ELSE l.current,
                  factorial |-> factorial,
                  coefficients |-> Append(l.coefficients, coef),
                  i |-> l.i + 1],
                 o, point, terms)
    ELSE l

\* f.taylorSeries(point, terms) called by o: current is cloned,
\* differentiated terms - 1 times and released when the call ends.
TaylorSeriesIn(h, o, f, point, terms) ==
    LET c == Call(h, o, "clone", f.expression)
        l == TaylorSeriesRunIn(
                 [heap |-> c.heap, current |-> MathFunction(c.addr, f.name),
                  factorial |-> FromInt(1), coefficients |-> <<>>, i |-> 0],
                 o, point, terms)
    IN  [heap |-> Release(h, o, l.heap), self |-> f,
         ret |-> Returned(l.coefficients)]

(***************************************************************************)
(* HeapSpec: one thread calling the methods of a Function whose nodes are  *)
(* objects in memory.  this.expression is the pointer to the root node.    *)
(***************************************************************************)
\* Largest number of nodes of a generated tree built in memory.
MaxHeapNodes == 2

\* The threads, and the owners of the arenas.
Threads == {1, 2}
Owners == {0} \cup Threads
Caller == 1

EmptyHeap == [o \in Owners |-> <<>>]

\* The tree e built in arena 0, bottom up and left to right.  With share, a
\* subtree that was built before is passed again instead of being built
\* again, as demonstrateMathematicalAnalysis passes its one Variable x to
\* Power, Product, Sin and Exp.
RECURSIVE Build(_, _, _)
Build(h, e, share) ==
    LET built == {k \in 1..Len(h[0]) : Unfold(h, Address(0, k)) = e}
    IN  IF share /\ built # {}
        THEN [heap |-> h, addr |-> Address(0, CHOOSE k \in built : TRUE)]
        ELSE CASE e.kind \in {"Constant", "Variable"} -> MakeShared(h, 0, e)
               [] e.kind \in BinaryKinds ->
                     LET l == Build(h, e.left, share)
                         r == Build(l.heap, e.right, share)
                     IN  MakeShared(r.heap, 0,
                                    [e EXCEPT !.left = l.addr,
                                              !.right = r.addr])
               [] e.kind = "Power" ->
                     LET b == Build(h, e.base, share)
                     IN  MakeShared(b.heap, 0, [e EXCEPT !.base = b.addr])
               [] e.kind \in UnaryKinds ->
                     LET a == Build(h, e.arg, share)
                     IN  MakeShared(a.heap, 0, [e EXCEPT !.arg = a.addr])

\* Trees in which a constructor is passed a pointer that another member or
\* node holds already: x + x, x * x and the x^2 + sin(x) of
\* demonstrateComputerAlgebraIntegration.
SharingExamples ==
    { Sum(Variable, Variable),
      Product(Variable, Variable),
      Sum(Power(Variable, FromInt(2)), Sin(Variable)) }

HeapFunctions ==
    {MathFunction(e, DefaultName) :
        e \in UNION {TreesOfSize(n) : n \in 1..MaxHeapNodes}
                  \cup SharingExamples}
    \cup DemoFunctions

HeapPoints == {FromInt(0), FromInt(1)}

HeapInit ==
    /\ \E f \in HeapFunctions, share \in BOOLEAN :
          LET b == Build(EmptyHeap, f.expression, share)
          IN  /\ heap = b.heap
              /\ this = MathFunction(b.addr, f.name)
    /\ pc = "idle"
    /\ call = NoCall
    /\ locals = NoLocals
    /\ ret = Pending
    /\ calls = NoCalls
    /\ threads = NoThreads

\* The call has run to its end, leaving the memory, the object and the
\* outcome of out.
Finish(out) ==
    /\ heap' = out.heap
    /\ this' = out.self
    /\ ret' = out.ret
    /\ pc' = "done"
    /\ UNCHANGED <<locals, calls, threads>>

\* A call of a method that reads the nodes and returns a number or a string.
Read(outcome) == Finish([heap |-> heap, self |-> this, ret |-> outcome])

\* this.expression->clone().
HeapClone ==
    /\ CanCall
    /\ call' = [method |-> "clone"]
    /\ LET out == Call(heap, Caller, "clone", this.expression)
       IN  Finish([heap |-> out.heap, self |-> this,
                   ret |-> Returned(out.addr)])

HeapDerivative ==
    /\ CanCall
    /\ call' = [method |-> "derivative"]
    /\ Finish(DerivativeIn(heap, Caller, this))

HeapNthDerivative ==
    /\ CanCall
    /\ \E n \in -1..MaxOrder :
          /\ call' = [method |-> "nthDerivative", n |-> n]
          /\ Finish(NthDerivativeIn(heap, Caller, this, n))

HeapEvaluate ==
    /\ CanCall
    /\ \E x \in HeapPoints :
          /\ Exact(ValueOf(heap, this).expression, x)
          /\ call' = [method |-> "evaluate", x |-> x]
          /\ Read(FunctionEvaluate(ValueOf(heap, this), x))

HeapToString ==
    /\ CanCall
    /\ call' = [method |-> "toString"]
    /\ Read(Returned(FunctionToString(ValueOf(heap, this))))

HeapLimit ==
    /\ CanCall
    /\ \E point \in HeapPoints :
          /\ Exact(ValueOf(heap, this).expression, Add(point, FromInt(1)))
          /\ call' = [method |-> "limit", point |-> point,
                      epsilon |-> FromInt(1)]
          /\ Read(FunctionLimit(ValueOf(heap, this), point, FromInt(1)))

HeapIntegrate ==
    /\ CanCall
    /\ \E steps \in -1..MaxSteps :
          LET a == FromInt(0)
              b == FromInt(1)
          IN  /\ IntegrateExact(ValueOf(heap, this), a, b, steps)
              /\ call' = [method |-> "integrate", a |-> a, b |-> b,
                          steps |-> steps]
              /\ Read(FunctionIntegrate(ValueOf(heap, this), a, b, steps))

HeapTabulate ==
    /\ CanCall
    /\ \E points \in -1..MaxPoints :
          LET start == FromInt(0)
              end   == FromInt(1)
          IN  /\ TabulateExact(ValueOf(heap, this), start, end, points)
              /\ call' = [method |-> "tabulate", start |-> start,
                          end |-> end, points |-> points]
              /\ Read(Tabulate(ValueOf(heap, this), start, end, points).ret)

HeapFindRoot ==
    /\ CanCall
    /\ IsRational(ValueOf(heap, this).expression)
    /\ Degree(ValueOf(heap, this).expression) <= MaxDegree
    /\ \E initialGuess \in HeapPoints, tolerance \in Tolerances,
          maxIterations \in -1..MaxIterations :
          /\ call' = [method |-> "findRoot", initialGuess |-> initialGuess,
                      tolerance |-> tolerance,
                      maxIterations |-> maxIterations]
          /\ Finish(FindRootIn(heap, Caller, this, initialGuess, tolerance,
                               maxIterations))

HeapTaylorSeries ==
    /\ CanCall
    /\ \E point \in HeapPoints, terms \in -1..MaxTerms :
          /\ Exact(ValueOf(heap, this).expression, point)
          /\ call' = [method |-> "taylorSeries", point |-> point,
                      terms |-> terms]
          /\ Finish(TaylorSeriesIn(heap, Caller, this, point, terms))

\* The caller has taken the result or caught the exception of the last call
\* and dropped it: the nodes of the result are released.
HeapReturn ==
    /\ pc = "done"
    /\ pc' = "idle"
    /\ call' = NoCall
    /\ ret' = Pending
    /\ heap' = Release(EmptyHeap, Caller, heap)
    /\ UNCHANGED <<this, locals, calls, threads>>

HeapNext ==
    \/ HeapClone
    \/ HeapDerivative
    \/ HeapNthDerivative
    \/ HeapEvaluate
    \/ HeapToString
    \/ HeapLimit
    \/ HeapIntegrate
    \/ HeapTabulate
    \/ HeapFindRoot
    \/ HeapTaylorSeries
    \/ HeapReturn

HeapSpec == HeapInit /\ [][HeapNext]_vars

(***************************************************************************)
(* ThreadSpec: threads calling the methods of one Function without any     *)
(* synchronisation.  A thread runs clone() and derivative() one make_shared *)
(* or one call at a time, so that the steps of the threads interleave; the  *)
(* nodes it allocates are in its own arena.  What a call reads of the tree  *)
(* it reads when it ends.                                                   *)
(***************************************************************************)
\* Largest order and largest number of derivatives taken by a thread's call.
MaxThreadOrder == 2

\* x + x and x * x, each with its one Variable node.
ThreadFunctions ==
    {MathFunction(e, DefaultName) :
        e \in {n \in SharingExamples : n.left = n.right}}

ThreadPoint == FromInt(0)

\* The calls a thread makes on the Function f.
ThreadCalls(f) ==
    {[method |-> "evaluate", x |-> ThreadPoint],
     [method |-> "toString"],
     [method |-> "derivative"],
     [method |-> "integrate", a |-> FromInt(0), b |-> FromInt(0),
      steps |-> 1],
     [method |-> "tabulate", start |-> FromInt(0), end |-> FromInt(0),
      points |-> 2]}
    \cup {[method |-> "nthDerivative", n |-> n] : n \in -1..MaxThreadOrder}
    \cup {[method |-> "taylorSeries", point |-> ThreadPoint, terms |-> terms] :
             terms \in 0..MaxThreadOrder}
    \cup {[method |-> "findRoot", initialGuess |-> g,
            tolerance |-> DefaultTolerance, maxIterations |-> 1] :
             g \in IF IsRational(f.expression) THEN HeapPoints ELSE {}}

IdleThread ==
    [pc |-> "idle", call |-> NoCall, ctl |-> <<>>, vals |-> <<>>,
     locals |-> NoLocals, ret |-> Pending]

ThreadInit ==
    /\ \E f \in ThreadFunctions :
          LET b == Build(EmptyHeap, f.expression, TRUE)
          IN  /\ heap = b.heap
              /\ this = MathFunction(b.addr, f.name)
    /\ threads = [t \in Threads |-> IdleThread]
    /\ pc = "idle"
    /\ call = NoCall
    /\ locals = NoLocals
    /\ ret = Pending
    /\ calls = NoCalls

\* The first statement of the call c on f: the clone() or derivative() call
\* it starts with, and its locals.
ThreadEntry(f, c) ==
    CASE c.method \in {"derivative", "findRoot"} ->
            [ctl |-> <<Visit("derivative", f.expression)>>,
             locals |-> NoLocals]
      [] c.method = "nthDerivative" ->
            [ctl |-> IF c.n < 0 THEN <<>>
                     ELSE IF c.n = 0 THEN <<Visit("clone", f.expression)>>
                     ELSE <<Visit("derivative", f.expression)>>,
             locals |-> [method |-> "nthDerivative", i |-> 1]]
      [] c.method = "taylorSeries" ->
            [ctl |-> <<Visit("clone", f.expression)>>,
             locals |-> [method |-> "taylorSeries", coefficients |-> <<>>,
                         factorial |-> FromInt(1), i |-> 0]]
      [] OTHER -> [ctl |-> <<>>, locals |-> NoLocals]

\* The thread t calls a method.
ThreadBegin(t) ==
    /\ threads[t].pc = "idle"
    /\ \E c \in ThreadCalls(ValueOf(heap, this)) :
          LET entry == ThreadEntry(this, c)
          IN  threads' = [threads EXCEPT
                  ![t] = [pc |-> "running", call |-> c, ctl |-> entry.ctl,
                          vals |-> <<>>, locals |-> entry.locals,
                          ret |-> Pending]]
    /\ UNCHANGED <<this, heap, pc, call, locals, ret, calls>>

\* The thread t runs one step of the clone() or derivative() call it is in.
ThreadStep(t) ==
    /\ threads[t].pc = "running"
    /\ threads[t].ctl # <<>>
    /\ LET m == MachineStep([heap |-> heap, ctl |-> threads[t].ctl,
                             vals |-> threads[t].vals], t)
       IN  /\ heap' = m.heap
           /\ threads' = [threads EXCEPT ![t].ctl = m.ctl, ![t].vals = m.vals]
    /\ UNCHANGED <<this, pc, call, locals, ret, calls>>

\* The loop of the call goes on after the clone() or derivative() call that
\* has returned.
ThreadLoops(th) ==
    \/ th.call.method = "nthDerivative" /\ th.call.n > 0
          /\ th.locals.i < th.call.n
    \/ th.call.method = "taylorSeries" /\ th.locals.i < th.call.terms

\* One pass of the loop of nthDerivative or taylorSeries up to its next
\* derivative() call, the pointer on vals being result or current.
ThreadPass(h, th) ==
    IF th.call.method = "nthDerivative"
    THEN [th EXCEPT !.ctl = <<Visit("derivative", th.vals[1])>>,
                    !.vals = <<>>,
                    !.locals.i = @ + 1]
    ELSE LET l == th.locals
             factorial == IF l.i > 0 THEN Mul(l.factorial, FromInt(l.i))
                          ELSE l.factorial
             coef == Div(Evaluate(Unfold(h, th.vals[1]), th.call.point),
                         factorial)
             more == l.i < th.call.terms - 1
         IN  [th EXCEPT
                 !.ctl = IF more THEN <<Visit("derivative", th.vals[1])>>
                         ELSE <<>>,
                 !.vals = IF more THEN <<>> ELSE @,
                 !.locals = [l EXCEPT !.factorial = factorial,
                                      !.coefficients = Append(@, coef),
                                      !.i = @ + 1]]

ThreadContinue(t) ==
    /\ threads[t].pc = "running"
    /\ threads[t].ctl = <<>>
    /\ ThreadLoops(threads[t])
    /\ threads' = [threads EXCEPT ![t] = ThreadPass(heap, @)]
    /\ UNCHANGED <<this, heap, pc, call, locals, ret, calls>>

\* How the call of th on f ends, its clone() and derivative() calls having
\* returned.
ThreadOutcome(h, f, th) ==
    LET c == th.call
        v == ValueOf(h, f)
    IN  CASE c.method = "evaluate" -> FunctionEvaluate(v, c.x)
          [] c.method = "toString" -> Returned(FunctionToString(v))
          [] c.method = "integrate" -> FunctionIntegrate(v, c.a, c.b, c.steps)
          [] c.method = "tabulate" ->
                Tabulate(v, c.start, c.end, c.points).ret
          [] c.method = "derivative" ->
                Returned(MathFunction(th.vals[1], f.name \o Tick))
          [] c.method = "nthDerivative" ->
                IF c.n < 0
                THEN Thrown("invalid_argument",
                            "Derivative order must be non-negative")
                ELSE Returned(MathFunction(th.vals[1],
                                           NameLoop(f.name, 0, c.n)))
          [] c.method = "taylorSeries" -> Returned(th.locals.coefficients)
          [] c.method = "findRoot" ->
                FindRootRun(v,
                            [method |-> "findRoot",
                             deriv |-> MathFunction(Unfold(h, th.vals[1]),
                                                    f.name \o Tick),
                             x |-> c.initialGuess, i |-> 0],
                            c.tolerance, c.maxIterations)

\* derivative() renaming the object it was called on as its result.
ThreadSelf_InPlace(f, c, r) ==
    IF c.method = "derivative" THEN [f EXCEPT !.name = r.value.name] ELSE f

\* The object after the call c on f that ended as r: the member functions
\* are const.
ThreadSelf(f, c, r) == f

\* The call of the thread t ends.
ThreadFinish(t) ==
    /\ threads[t].pc = "running"
    /\ threads[t].ctl = <<>>
    /\ ~ThreadLoops(threads[t])
    /\ LET r == ThreadOutcome(heap, this, threads[t])
       IN  /\ threads' = [threads EXCEPT ![t].pc = "done", ![t].ret = r]
           /\ this' = ThreadSelf(this, threads[t].call, r)
    /\ UNCHANGED <<heap, pc, call, locals, ret, calls>>

\* The thread t has taken the result of its call and dropped it.
ThreadReturn(t) ==
    /\ threads[t].pc = "done"
    /\ threads' = [threads EXCEPT ![t] = IdleThread]
    /\ heap' = [heap EXCEPT ![t] = <<>>]
    /\ UNCHANGED <<this, pc, call, locals, ret, calls>>

ThreadNext ==
    \E t \in Threads :
        \/ ThreadBegin(t)
        \/ ThreadStep(t)
        \/ ThreadContinue(t)
        \/ ThreadFinish(t)
        \/ ThreadReturn(t)

ThreadSpec == ThreadInit /\ [][ThreadNext]_vars

(***************************************************************************)
(* ListSpec: a SparseList<int>.  this is the list object: data is the      *)
(* std::map as a function from the stored indices to their values.  calls  *)
(* keeps, for the statements about it, the value each index was last set   *)
(* to and whether the list has been changed by set alone.                  *)
(***************************************************************************)
\* Largest index of a call, and largest number of entries of a file.
MaxIndex == 1
MaxFileEntries == 1

\* The largest size_t, which list.set(-1, v) passes: the one arithmetic on an
\* index is index + 1, which wraps to 0 there.
SizeMax == 2147483647
SizeSucc(index) == IF index = SizeMax THEN 0 ELSE index + 1

ListIndices == 0..MaxIndex \cup {SizeMax}
ListValues == {0, 42}
ListDefaults == {0, 42}

\* std::map: data[index] = value, data.erase(index).
MapPut(data, index, value) ==
    [i \in DOMAIN data \cup {index} |-> IF i = index THEN value ELSE data[i]]
MapErase(data, index) == [i \in DOMAIN data \ {index} |-> data[i]]
EmptyMap == <<>>

\* SparseList(size, defVal).
SparseList(size, defVal) ==
    [data |-> EmptyMap, listSize |-> size, defaultValue |-> defVal]

NoHistory == [written |-> EmptyMap, setsOnly |-> TRUE]
Void == Returned("void")

ListInit ==
    /\ \E size \in 0..MaxIndex, defVal \in ListDefaults :
          this = SparseList(size, defVal)
    /\ pc = "idle"
    /\ call = NoCall
    /\ ret = Pending
    /\ calls = NoHistory
    /\ locals = NoLocals
    /\ heap = NoHeap
    /\ threads = NoThreads

\* get as set is documented: out_of_range for an index that is not below
\* listSize.
ListGetOutcome_Unchecked(l, index) ==
    Returned(IF index \in DOMAIN l.data THEN l.data[index]
             ELSE l.defaultValue)

\* get(index): how it ends.
ListGetOutcome(l, index) ==
    IF index >= l.listSize
    THEN Thrown("out_of_range", "Index out of range")
    ELSE Returned(IF index \in DOMAIN l.data THEN l.data[index]
                  ELSE l.defaultValue)

ListGet ==
    /\ CanCall
    /\ \E index \in ListIndices :
          /\ call' = [method |-> "get", index |-> index]
          /\ ret' = ListGetOutcome(this, index)
    /\ pc' = "done"
    /\ UNCHANGED <<this, calls, locals, heap, threads>>

\* set(index, value): the list afterwards.
ListAfterSet(l, index, value) ==
    [l EXCEPT !.listSize = IF index >= @ THEN SizeSucc(index) ELSE @,
              !.data = IF value = l.defaultValue THEN MapErase(@, index)
                       ELSE MapPut(@, index, value)]

ListSet ==
    /\ CanCall
    /\ \E index \in ListIndices, value \in ListValues :
          /\ call' = [method |-> "set", index |-> index, value |-> value]
          /\ this' = ListAfterSet(this, index, value)
          /\ calls' = IF calls.setsOnly
                      THEN [calls EXCEPT !.written = MapPut(@, index, value)]
                      ELSE calls
    /\ ret' = Void
    /\ pc' = "done"
    /\ UNCHANGED <<locals, heap, threads>>

ListSize ==
    /\ CanCall
    /\ call' = [method |-> "size"]
    /\ ret' = Returned(this.listSize)
    /\ pc' = "done"
    /\ UNCHANGED <<this, calls, locals, heap, threads>>

ListNonZeroCount ==
    /\ CanCall
    /\ call' = [method |-> "nonZeroCount"]
    /\ ret' = Returned(Cardinality(DOMAIN this.data))
    /\ pc' = "done"
    /\ UNCHANGED <<this, calls, locals, heap, threads>>

\* clear(): the list afterwards.
ListAfterClear(l) == [l EXCEPT !.data = EmptyMap, !.listSize = 0]

ListClear ==
    /\ CanCall
    /\ call' = [method |-> "clear"]
    /\ this' = ListAfterClear(this)
    /\ calls' = NoHistory
    /\ ret' = Void
    /\ pc' = "done"
    /\ UNCHANGED <<locals, heap, threads>>

\* for (i < count) data[idx] = val, over the pairs <<idx, val>> in order.
RECURSIVE StoreAll(_, _, _)
StoreAll(data, pairs, i) ==
    IF i > Len(pairs) THEN data
    ELSE StoreAll(MapPut(data, pairs[i][1], pairs[i][2]), pairs, i + 1)

\* The sequences of count pairs of an index and a value.
RECURSIVE PairsOf(_, _, _)
PairsOf(indices, values, count) ==
    IF count = 0 THEN {<<>>}
    ELSE {Append(ps, <<i, v>>) :
             ps \in PairsOf(indices, values, count - 1),
             i \in indices, v \in values}

\* static_cast<size_t>(size * density).
RandomCount(size, density) ==
    LET product == Mul(FromInt(size), density)
    IN  product.n \div product.d

Densities == {FromInt(0), Ratio(1, 2), FromInt(1)}

\* generateRandom(size, density, generator): rand() % size is any index
\* below size and generator() any value.
ListGenerateRandom ==
    /\ CanCall
    /\ \E size \in 0..MaxIndex, density \in Densities :
          \E pairs \in PairsOf(0..(size - 1), ListValues,
                                RandomCount(size, density)) :
              /\ call' = [method |-> "generateRandom", size |-> size,
                          density |-> density]
              /\ this' = [ListAfterClear(this) EXCEPT
                              !.listSize = size,
                              !.data = StoreAll(@, pairs, 1)]
    /\ calls' = [NoHistory EXCEPT !.setsOnly = FALSE]
    /\ ret' = Void
    /\ pc' = "done"
    /\ UNCHANGED <<locals, heap, threads>>

\* The files: one that cannot be opened, and the files that hold a type
\* word, a size, a count and count pairs.
ListFiles ==
    {[opens |-> FALSE]}
    \cup {[opens |-> TRUE, type |-> type, sz |-> sz, pairs |-> pairs] :
             type \in {"SparseList", "SparseMatrix"},
             sz \in 0..MaxIndex,
             pairs \in UNION {PairsOf(0..MaxIndex, ListValues, count) :
                                 count \in 0..MaxFileEntries}}

\* loadFromFile(filename): the list afterwards and how the call ends.
ListLoad(l, file) ==
    IF ~file.opens
    THEN [list |-> l,
          ret |-> Thrown("runtime_error", "Cannot open file for reading")]
    ELSE IF file.type # "SparseList"
    THEN [list |-> l, ret |-> Thrown("runtime_error", "Invalid file format")]
    ELSE [list |-> [ListAfterClear(l) EXCEPT
                       !.listSize = file.sz,
                       !.data = StoreAll(@, file.pairs, 1)],
          ret |-> Void]

ListLoadFromFile ==
    /\ CanCall
    /\ \E file \in ListFiles :
          LET out == ListLoad(this, file)
          IN  /\ call' = [method |-> "loadFromFile", file |-> file]
              /\ this' = out.list
              /\ ret' = out.ret
              /\ calls' = IF out.ret = Void
                          THEN [NoHistory EXCEPT !.setsOnly = FALSE]
                          ELSE calls
    /\ pc' = "done"
    /\ UNCHANGED <<locals, heap, threads>>

ListReturn ==
    /\ pc = "done"
    /\ pc' = "idle"
    /\ call' = NoCall
    /\ ret' = Pending
    /\ UNCHANGED <<this, calls, locals, heap, threads>>

ListNext ==
    \/ ListGet
    \/ ListSet
    \/ ListSize
    \/ ListNonZeroCount
    \/ ListClear
    \/ ListGenerateRandom
    \/ ListLoadFromFile
    \/ ListReturn

ListSpec == ListInit /\ [][ListNext]_vars

(***************************************************************************)
(* RecursiveSequence (Sequence.h): the initial terms, the recurrence       *)
(* relation and the memo cache that getTerm, a const method, extends.      *)
(* `this' is the sequence object.  The relation is a pure function of the  *)
(* vector it is passed, as the lambdas of the program are.                 *)
(***************************************************************************)
MaxTermIndex == 6

\* The relations a sequence is built with; Fibonacci is the lambda of the
\* demonstration and of the unit test.
ApplyRelation(relation, prev) ==
    CASE relation = "Fibonacci" -> Add(prev[1], prev[2])
      [] relation = "First" -> prev[1]
      [] relation = "Weighted" ->
            Add(prev[1], Mul(FromInt(2), prev[Len(prev)]))
      [] relation = "Length" -> FromInt(Len(prev))

Doubles(ints) == [i \in 1..Len(ints) |-> FromInt(ints[i])]

RecursiveSequence(initial, relation) ==
    [initialTerms |-> initial, recurrenceRelation |-> relation,
     cache |-> initial]

Sequences ==
    {RecursiveSequence(Doubles(<<1, 1>>), "Fibonacci"),
     RecursiveSequence(Doubles(<<0, 1, 1>>), "Fibonacci"),
     RecursiveSequence(Doubles(<<1, 2>>), "Weighted"),
     RecursiveSequence(Doubles(<<2>>), "Weighted"),
     RecursiveSequence(Doubles(<<1, 2, 3>>), "First"),
     RecursiveSequence(Doubles(<<3>>), "First"),
     RecursiveSequence(<<>>, "Length")}

TermIndices == (-1)..MaxTermIndex

SeqInit ==
    /\ this \in Sequences
    /\ pc = "idle"
    /\ call = NoCall
    /\ ret = Pending
    /\ calls = NoCalls
    /\ locals = NoLocals
    /\ heap = NoHeap
    /\ threads = NoThreads

\* The vector `previous' of one pass of the loop taken from the start of
\* the cache.
Previous_FromStart(cache, k) == SubSeq(cache, 1, k)

\* The vector `previous' of one pass of the loop: the last k entries of the
\* cache, oldest first.
Previous(cache, k) == SubSeq(cache, Len(cache) - k + 1, Len(cache))

\* The while loop of getTerm refilling the cache from the initial terms.
RECURSIVE FillCache_Restart(_, _)
FillCache_Restart(s, n) ==
    LET from == IF Len(s.cache) > n /\ Len(s.initialTerms) <= n
                THEN [s EXCEPT !.cache = s.initialTerms] ELSE s
    IN  IF Len(from.cache) >= n THEN from
        ELSE FillCache_Restart(
                 [from EXCEPT !.cache =
                     Append(from.cache,
                            ApplyRelation(from.recurrenceRelation,
                                Previous(from.cache,
                                         Len(from.initialTerms))))], n)

\* The while loop of getTerm: the sequence once the cache holds n entries.
RECURSIVE FillCache(_, _)
FillCache(s, n) ==
    IF Len(s.cache) >= n THEN s
    ELSE FillCache(
             [s EXCEPT !.cache =
                 Append(s.cache,
                        ApplyRelation(s.recurrenceRelation,
                            Previous(s.cache, Len(s.initialTerms))))], n)

\* getTerm(n): how it ends; a call that throws has not touched the cache.
GetTermOutcome(s, n) ==
    IF n < 1 THEN Thrown("invalid_argument", "Term index must be positive")
    ELSE Returned(FillCache(s, n).cache[n])

GetTerm ==
    /\ CanCall
    /\ \E n \in TermIndices :
          /\ call' = [method |-> "getTerm", n |-> n]
          /\ ret' = GetTermOutcome(this, n)
          /\ this' = IF n < 1 THEN this ELSE FillCache(this, n)
    /\ pc' = "done"
    /\ UNCHANGED <<calls, locals, heap, threads>>

SeqReturn ==
    /\ pc = "done"
    /\ pc' = "idle"
    /\ call' = NoCall
    /\ ret' = Pending
    /\ UNCHANGED <<this, calls, locals, heap, threads>>

SeqNext ==
    \/ GetTerm
    \/ SeqReturn

SeqSpec == SeqInit /\ [][SeqNext]_vars

(***************************************************************************)
(* findRoot on numerators and denominators of any length.  Newton's        *)
(* iterates of the demonstration call, rootFunc.findRoot(3.0) on x^2 - 4,  *)
(* do not fit the integers of the fractions above after three passes, so   *)
(* here a natural number is the sequence of its digits to the base         *)
(* LimbBase, least significant first and without leading zeros, and a      *)
(* double is a sign with a fraction of two such numbers, not reduced to    *)
(* lowest terms.  The arithmetic is that of the fractions above on finite  *)
(* values; the functions are polynomials and the tolerance is positive, so *)
(* that no division is by zero.                                            *)
(***************************************************************************)
LimbBase == 10 * 10 * 10

\* The passes allowed to a call other than the demonstration's.
MaxPasses == 3

\* int maxIterations = 100
DefaultMaxIterations == 100

RECURSIVE BigOf(_)
BigOf(n) ==
    IF n = 0 THEN <<>> ELSE <<n % LimbBase>> \o BigOf(n \div LimbBase)

\* The columns cols[lo..hi] with the carry coming in turned into digits,
\* and the carry going out; a column may be negative or exceed the base.
\* The range is halved so that long numbers do not nest deeply.
RECURSIVE CarryRange(_, _, _, _)
CarryRange(cols, lo, hi, carry) ==
    IF lo > hi THEN [digits |-> <<>>, carry |-> carry]
    ELSE IF lo = hi
    THEN [digits |-> <<(cols[lo] + carry) % LimbBase>>,
          carry |-> (cols[lo] + carry) \div LimbBase]
    ELSE LET mid  == (lo + hi) \div 2
             low  == CarryRange(cols, lo, mid, carry)
             high == CarryRange(cols, mid + 1, hi, low.carry)
         IN  [digits |-> low.digits \o high.digits, carry |-> high.carry]

\* The digits of the number with the columns cols.
Carry(cols) ==
    LET all == CarryRange(cols, 1, Len(cols), 0)
    IN  all.digits \o BigOf(all.carry)

RECURSIVE Trim(_)
Trim(a) ==
    IF a = <<>> \/ a[Len(a)] # 0 THEN a
    ELSE Trim(SubSeq(a, 1, Len(a) - 1))

Limb(a, i) == IF i <= Len(a) THEN a[i] ELSE 0
Longer(a, b) == IF Len(a) > Len(b) THEN Len(a) ELSE Len(b)

BigAdd(a, b) ==
    Carry([i \in 1..Longer(a, b) |-> Limb(a, i) + Limb(b, i)])

\* a - b for a >= b.
BigSub(a, b) ==
    Trim(Carry([i \in 1..Longer(a, b) |-> Limb(a, i) - Limb(b, i)]))

\* The k-th column of the long multiplication of a by b: the sum of
\* a[i] * b[k - i + 1] for i in lo..hi.
RECURSIVE Column(_, _, _, _, _)
Column(a, b, k, lo, hi) ==
    IF lo > hi THEN 0
    ELSE IF lo = hi THEN a[lo] * b[k - lo + 1]
    ELSE LET mid == (lo + hi) \div 2
         IN  Column(a, b, k, lo, mid) + Column(a, b, k, mid + 1, hi)

BigMul(a, b) ==
    IF a = <<>> \/ b = <<>> THEN <<>>
    ELSE Carry([k \in 1..(Len(a) + Len(b) - 1) |->
                   Column(a, b, k,
                          IF k > Len(b) THEN k - Len(b) + 1 ELSE 1,
                          IF k < Len(a) THEN k ELSE Len(a))])

BigLess(a, b) ==
    IF Len(a) # Len(b) THEN Len(a) < Len(b)
    ELSE \E i \in 1..Len(a) :
            /\ a[i] < b[i]
            /\ \A j \in (i + 1)..Len(a) : a[j] = b[j]

\* The finite double v with its numerator and denominator as digits.
WideOf(v) == [s |-> v.s, n |-> BigOf(v.n), d |-> BigOf(v.d)]

\* x + y.
WideAdd(x, y) ==
    LET a == BigMul(x.n, y.d)
        b == BigMul(y.n, x.d)
        d == BigMul(x.d, y.d)
    IN  IF x.s = y.s THEN [s |-> x.s, n |-> BigAdd(a, b), d |-> d]
        ELSE IF BigLess(a, b) THEN [s |-> y.s, n |-> BigSub(b, a), d |-> d]
        ELSE [s |-> x.s, n |-> BigSub(a, b), d |-> d]

\* x - y.
WideSub(x, y) == WideAdd(x, [y EXCEPT !.s = -y.s])

\* x * y.
WideMul(x, y) ==
    [s |-> x.s * y.s, n |-> BigMul(x.n, y.n), d |-> BigMul(x.d, y.d)]

\* x / y for y other than zero.
WideDiv(x, y) ==
    [s |-> x.s * y.s, n |-> BigMul(x.n, y.d), d |-> BigMul(x.d, y.n)]

\* std::abs
WideAbs(x) == [x EXCEPT !.s = 1]

\* operator<
WideLess(x, y) ==
    LET diff == WideSub(x, y)
    IN  diff.s = -1 /\ diff.n # <<>>

\* std::pow(x, e) for an exponent that is a natural number.
RECURSIVE WidePow(_, _)
WidePow(x, e) ==
    IF e = 0 THEN WideOf(FromInt(1)) ELSE WideMul(x, WidePow(x, e - 1))

\* evaluate(x) of a polynomial tree.
RECURSIVE EvaluateWide(_, _)
EvaluateWide(e, x) ==
    CASE e.kind = "Constant" -> WideOf(e.value)
      [] e.kind = "Variable" -> x
      [] e.kind = "Sum" ->
            WideAdd(EvaluateWide(e.left, x), EvaluateWide(e.right, x))
      [] e.kind = "Product" ->
            WideMul(EvaluateWide(e.left, x), EvaluateWide(e.right, x))
      [] e.kind = "Power" ->
            WidePow(EvaluateWide(e.base, x), IntOf(e.exponent))

\* x^2 - 4 named "r", the function of the demonstration, and its like.
RootFunction ==
    MathFunction(Sum(Power(Variable, FromInt(2)), Constant(FromInt(-4))),
                 <<"r">>)

WideFunctions ==
    {RootFunction,
     MathFunction(Sum(Power(Variable, FromInt(2)), Constant(FromInt(-2))),
                  DefaultName),
     MathFunction(Sum(Product(Variable, Variable), Constant(FromInt(-9))),
                  DefaultName),
     MathFunction(Sum(Product(Constant(FromInt(2)), Variable),
                      Constant(FromInt(-3))), DefaultName)}

\* rootFunc.findRoot(3.0), the arguments left out taking their defaults.
RootCall ==
    [method |-> "findRoot", initialGuess |-> FromInt(3),
     tolerance |-> DefaultTolerance, maxIterations |-> DefaultMaxIterations]

WideCalls(f) ==
    {[method |-> "findRoot", initialGuess |-> FromInt(g),
      tolerance |-> DefaultTolerance, maxIterations |-> m] :
        g \in 0..3, m \in (-1)..MaxPasses}
    \cup (IF f = RootFunction THEN {RootCall} ELSE {})

WideInit ==
    /\ this \in WideFunctions
    /\ pc = "idle"
    /\ call = NoCall
    /\ ret = Pending
    /\ calls = NoCalls
    /\ locals = NoLocals
    /\ heap = NoHeap
    /\ threads = NoThreads

FindRootBeginWide ==
    /\ CanCall
    /\ call' \in WideCalls(this)
    /\ locals' = [method |-> "findRoot", deriv |-> FunctionDerivative(this),
                  x |-> WideOf(call'.initialGuess), i |-> 0]
    /\ calls' = [evaluate |-> 0, derivative |-> 1]
    /\ ret' = Pending
    /\ pc' = "findRoot"
    /\ UNCHANGED <<this, heap, threads>>

\* double xNew = x - fx / dfx;
NewtonStepWide(x, fx, dfx) == WideSub(x, WideDiv(fx, dfx))

\* if (std::abs(dfx) < tolerance)
DerivativeTooSmallWide(dfx, tolerance) ==
    WideLess(WideAbs(dfx), WideOf(tolerance))

\* The step compared with 1 whatever the tolerance is.
ConvergedWide_Coarse(xNew, x, tolerance) ==
    WideLess(WideAbs(WideSub(xNew, x)), WideOf(FromInt(1)))

\* if (std::abs(xNew - x) < tolerance)
ConvergedWide(xNew, x, tolerance) ==
    WideLess(WideAbs(WideSub(xNew, x)), WideOf(tolerance))

\* The body of the loop at the locals l: the outcome that ends the call, or
\* the locals of the next pass.
FindRootBodyWide(f, l, tolerance) ==
    LET fx   == EvaluateWide(f.expression, l.x)
        dfx  == EvaluateWide(l.deriv.expression, l.x)
        xNew == NewtonStepWide(l.x, fx, dfx)
    IN  IF DerivativeTooSmallWide(dfx, tolerance)
        THEN [ret |-> Thrown("runtime_error", "Derivative too small"),
              locals |-> l]
        ELSE IF ConvergedWide(xNew, l.x, tolerance)
        THEN [ret |-> Returned(xNew), locals |-> l]
        ELSE [ret |-> Pending, locals |-> [l EXCEPT !.x = xNew, !.i = l.i + 1]]

FindRootIterateWide ==
    /\ pc = "findRoot"
    /\ LoopContinues(locals.i, call.maxIterations)
    /\ LET out == FindRootBodyWide(this, locals, call.tolerance)
       IN  /\ ret' = out.ret
           /\ locals' = out.locals
           /\ pc' = IF out.ret = Pending THEN "findRoot" ELSE "done"
    /\ calls' = [calls EXCEPT !.evaluate = calls.evaluate + 2]
    /\ UNCHANGED <<this, call, heap, threads>>

\* throw std::runtime_error("Root finding did not converge");
FindRootExhaustedWide ==
    /\ pc = "findRoot"
    /\ ~LoopContinues(locals.i, call.maxIterations)
    /\ ret' = Thrown("runtime_error", "Root finding did not converge")
    /\ pc' = "done"
    /\ UNCHANGED <<this, call, locals, calls, heap, threads>>

WideReturn ==
    /\ pc = "done"
    /\ pc' = "idle"
    /\ call' = NoCall
    /\ ret' = Pending
    /\ calls' = NoCalls
    /\ locals' = NoLocals
    /\ UNCHANGED <<this, heap, threads>>

WideNext ==
    \/ FindRootBeginWide
    \/ FindRootIterateWide
    \/ FindRootExhaustedWide
    \/ WideReturn

WideSpec == WideInit /\ [][WideNext]_vars

(***************************************************************************)
(* The differentiation rules as the rule table states them, d(n) being the *)
(* rule applied to n and clone(n) a tree equal to n.                       *)
(***************************************************************************)
RECURSIVE RuleTable(_)
RuleTable(e) ==
    LET d(n) == RuleTable(n)
    IN  CASE e.kind = "Constant" -> Constant(FromInt(0))
          [] e.kind = "Variable" -> Constant(FromInt(1))
          [] e.kind = "Sum" -> Sum(d(e.left), d(e.right))
          [] e.kind = "Product" ->
                Sum(Product(d(e.left), e.right), Product(e.left, d(e.right)))
          [] e.kind = "Power" ->
                Product(Product(Constant(e.exponent),
                                Power(e.base, FromInt(IntOf(e.exponent) - 1))),
                        d(e.base))
          [] e.kind = "Sin" -> Product(Cos(e.arg), d(e.arg))
          [] e.kind = "Cos" ->
                Product(Product(Constant(FromInt(-1)), Sin(e.arg)), d(e.arg))
          [] e.kind = "Exp" -> Product(Exp(e.arg), d(e.arg))
          [] e.kind = "Ln" -> Product(d(e.arg), Power(e.arg, FromInt(-1)))

Done(method) == pc = "done" /\ call.method = method

\* C1: derivative() returns exactly the tree the rule table prescribes, with
\* the children in the table's left/right order, for every expression.
C1_DerivativeFollowsRuleTable ==
    Done("derivative") =>
        ret = Returned(MathFunction(RuleTable(this.expression),
                                    ret.value.name))

\* C1 witness: the derivative of the logarithm of a power has been returned.
C1_Witness ==
    /\ Done("derivative")
    /\ this.expression.kind = "Ln"
    /\ this.expression.arg.kind = "Power"
    /\ ret.how = "return"

(***************************************************************************)
(* Polynomials with integer coefficients, lowest degree first: the         *)
(* reference for the value of a derivative.                                *)
(***************************************************************************)
Coef(p, i) == IF i <= Len(p) THEN p[i] ELSE 0

PolyAdd(p, q) ==
    [i \in 1..(IF Len(p) < Len(q) THEN Len(q) ELSE Len(p)) |->
        Coef(p, i) + Coef(q, i)]

\* The sum of p[i] * q[k + 1 - i] for i in 1..j.
RECURSIVE Convolve(_, _, _, _)
Convolve(p, q, k, j) ==
    IF j = 0 THEN 0
    ELSE (IF k + 1 - j >= 1 THEN Coef(p, j) * Coef(q, k + 1 - j) ELSE 0)
         + Convolve(p, q, k, j - 1)

PolyMul(p, q) == [k \in 1..(Len(p) + Len(q) - 1) |-> Convolve(p, q, k, k)]

RECURSIVE PolyPow(_, _)
PolyPow(p, e) == IF e = 0 THEN <<1>> ELSE PolyMul(p, PolyPow(p, e - 1))

\* The trees that denote polynomials: integer constants, exponents >= 0.
RECURSIVE IsPolynomial(_)
IsPolynomial(e) ==
    CASE e.kind = "Constant" -> e.value.k = "fin" /\ e.value.d = 1
      [] e.kind = "Variable" -> TRUE
      [] e.kind \in BinaryKinds -> IsPolynomial(e.left) /\ IsPolynomial(e.right)
      [] e.kind = "Power" -> IsPolynomial(e.base) /\ IntOf(e.exponent) >= 0
      [] e.kind \in UnaryKinds -> FALSE

RECURSIVE PolyOf(_)
PolyOf(e) ==
    CASE e.kind = "Constant" -> <<IntOf(e.value)>>
      [] e.kind = "Variable" -> <<0, 1>>
      [] e.kind = "Sum" -> PolyAdd(PolyOf(e.left), PolyOf(e.right))
      [] e.kind = "Product" -> PolyMul(PolyOf(e.left), PolyOf(e.right))
      [] e.kind = "Power" -> PolyPow(PolyOf(e.base), IntOf(e.exponent))

\* d/dx of c1 + c2 x + c3 x^2 + ... is c2 + 2 c3 x + ...
PolyDerivative(p) == [i \in 1..(Len(p) - 1) |-> i * p[i + 1]]

\* The value of p at the integer x.
RECURSIVE PolyEval(_, _, _)
PolyEval(p, x, i) ==
    IF i > Len(p) THEN 0 ELSE p[i] + x * PolyEval(p, x, i + 1)

\* The derivative of the polynomial that e denotes, at the point x.
TrueDerivativeAt(e, x) ==
    FromInt(PolyEval(PolyDerivative(PolyOf(e)), IntOf(x), 1))

\* C2: the returned derivative evaluates, at every x, to the mathematically
\* correct derivative of the expression (stated for the expressions that
\* denote polynomials, Power nodes with exponent 0 or 1 and zero bases
\* included).
C2_DerivativeValueCorrect ==
    (Done("derivative") /\ IsPolynomial(this.expression)) =>
        \A x \in Points :
            NumEq(Evaluate(ret.value.expression, x),
                  TrueDerivativeAt(this.expression, x))

(***************************************************************************)
(* findRoot.                                                               *)
(***************************************************************************)
TooSmall == Thrown("runtime_error", "Derivative too small")
DidNotConverge == Thrown("runtime_error", "Root finding did not converge")

\* f(x) and f'(x), f' being the analytic derivative of the expression.
ValueAt(x) == Evaluate(this.expression, x)
SlopeAt(x) == Evaluate(Derivative(this.expression), x)

\* A pass of the loop is about to run at the current x.
InIteration == pc = "findRoot" /\ locals.i < call.maxIterations

\* The passes of the loop run so far: each evaluates f and f' once.
Iterations == calls.evaluate \div 2

\* The derivative of the expression is zero at every point of the model.
ZeroSlope == \A x \in Points : IsZero(SlopeAt(x))

\* C3, per pass: a pass whose x has |f'(x)| < tolerance ends the call with
\* "Derivative too small".
C3_Step ==
    (InIteration /\ Less(Abs(SlopeAt(locals.x)), call.tolerance)) =>
        (pc' = "done" /\ ret' = TooSmall)

\* C3, identically zero derivative: with the default tolerance the call
\* fails with "Derivative too small" in its first pass, whatever the guess.
C3_ZeroSlope ==
    (Done("findRoot") /\ ZeroSlope /\ call.tolerance = DefaultTolerance
        /\ call.maxIterations >= 1) =>
        (ret = TooSmall /\ Iterations = 1 /\ locals.x = call.initialGuess)

\* C3: findRoot fails with DerivativeTooSmall in any iteration whose x has
\* |f'(x)| < tolerance, f' the analytic derivative; for a function whose
\* derivative is identically zero and the default tolerance it does so in
\* the first iteration, for every initial guess.
C3_DerivativeTooSmall == [][C3_Step]_vars /\ []C3_ZeroSlope

\* C3 witness: a second pass has failed on a derivative that is small but
\* not zero.
C3_Witness ==
    /\ Done("findRoot")
    /\ ret = TooSmall
    /\ Iterations = 2
    /\ ~IsZero(SlopeAt(locals.x))

\* C4, per pass: a pass whose Newton step moves x by less than tolerance
\* ends the call, returning the new x.
C4_Step ==
    LET xNew == Sub(locals.x, Div(ValueAt(locals.x), SlopeAt(locals.x)))
    IN  (InIteration /\ ~Less(Abs(SlopeAt(locals.x)), call.tolerance)
            /\ Less(Abs(Sub(xNew, locals.x)), call.tolerance)) =>
            (pc' = "done" /\ ret' = Returned(xNew))

\* C4, first such pass: no pass runs after a call has ended, and a pass that
\* does not end the call has moved x by at least tolerance (or by a NaN).
C4_First ==
    /\ pc = "done" => (pc' = "idle" /\ calls' = NoCalls)
    /\ (InIteration /\ pc' = "findRoot") =>
          /\ locals'.i = locals.i + 1
          /\ ~Less(Abs(Sub(locals'.x, locals.x)), call.tolerance)

\* C4: findRoot returns at the first iteration whose step x_new = x -
\* f(x)/f'(x) has |x_new - x| < tolerance, the value returned is x_new, and
\* no later iteration is executed.
C4_ReturnsNewX == [][C4_Step /\ C4_First]_vars

\* C4 witness: the second pass has returned a value other than the x it
\* started from.
C4_Witness ==
    /\ Done("findRoot")
    /\ ret.how = "return"
    /\ Iterations = 2
    /\ ~NumEq(ret.value, locals.x)

\* max(maxIterations, 0): the passes a call can run.
Budget == IF call.maxIterations < 0 THEN 0 ELSE call.maxIterations

\* C5, in every state of a call: at most maxIterations passes have run, each
\* pass before the last went on to the next; a call that has ended has one of
\* the three outcomes, "did not converge" exactly when maxIterations passes
\* have run and each of them went on to the next.
C5_State ==
    /\ call.method = "findRoot" =>
          /\ Iterations <= Budget
          /\ locals.i <= Iterations
    /\ pc = "findRoot" =>
          /\ ret = Pending
          /\ locals.i = Iterations
    /\ Done("findRoot") =>
          /\ ret = TooSmall \/ ret = DidNotConverge \/ ret.how = "return"
          /\ ret = DidNotConverge <=>
                (Iterations = Budget /\ locals.i = Budget)

\* C5, per step of a call: it runs one more pass or ends the call.
C5_Step ==
    pc = "findRoot" =>
        \/ pc' = "findRoot" /\ calls'.evaluate = calls.evaluate + 2
        \/ pc' = "done"

\* C5: findRoot terminates after at most maxIterations iterations with one
\* of three outcomes, and fails with DidNotConverge exactly when
\* maxIterations iterations ran without DerivativeTooSmall and without
\* meeting the step-size criterion (no iteration when maxIterations <= 0).
C5_Terminates == []C5_State /\ [][C5_Step]_vars

\* C5 witness: the iteration budget was used up by two full passes.
C5_Witness ==
    /\ Done("findRoot")
    /\ ret = DidNotConverge
    /\ call.maxIterations = 2
    /\ Iterations = 2

\* C5 witness, no budget: a call with maxIterations <= 0 has failed without
\* running a pass.
C5_WitnessNoBudget ==
    /\ Done("findRoot")
    /\ ret = DidNotConverge
    /\ call.maxIterations <= 0
    /\ Iterations = 0

(***************************************************************************)
(* nthDerivative.                                                          *)
(***************************************************************************)
\* The Function reached from f by n successive calls of derivative().
RECURSIVE Successive(_, _)
Successive(f, n) ==
    IF n = 0 THEN f ELSE FunctionDerivative(Successive(f, n - 1))

\* n derivative markers.
Markers(n) == [i \in 1..n |-> "'"]

InvalidOrder ==
    Thrown("invalid_argument", "Derivative order must be non-negative")

\* C6: for n >= 1 the expression of nthDerivative(n) is the expression that n
\* successive derivative() calls give, starting from the original; for n = 0
\* it is a copy of the original expression.
C6_NthDerivativeExpression ==
    (Done("nthDerivative") /\ call.n >= 0) =>
        /\ ret.how = "return"
        /\ ret.value.expression = Successive(this, call.n).expression
        /\ call.n = 0 => ret.value.expression = this.expression

\* C6 witness: a second derivative of a product has been returned.
C6_Witness ==
    /\ Done("nthDerivative")
    /\ call.n = 2
    /\ this.expression.kind = "Product"
    /\ ret.how = "return"

\* C7: nthDerivative(0) keeps the name, nthDerivative(n) for n >= 1 appends
\* exactly n markers to it, and derivative() appends exactly one.
C7_DerivativeNames ==
    /\ (Done("nthDerivative") /\ call.n >= 0) =>
          ret.value.name = this.name \o Markers(call.n)
    /\ Done("derivative") => ret.value.name = this.name \o Markers(1)

\* C7 witness: nthDerivative(2) has returned a Function named with two
\* markers.
C7_Witness ==
    /\ Done("nthDerivative")
    /\ call.n = 2
    /\ ret.how = "return"
    /\ Len(ret.value.name) = Len(this.name) + 2

\* C8: nthDerivative(n) with n < 0 fails with InvalidArgument before any
\* differentiation is performed.
C8_NegativeOrderRejected ==
    (Done("nthDerivative") /\ call.n < 0) =>
        (ret = InvalidOrder /\ calls.derivative = 0)

\* C8 witness: nthDerivative(-1) has thrown on a tree with an inner node.
C8_Witness ==
    /\ Done("nthDerivative")
    /\ call.n = -1
    /\ this.expression.kind = "Sum"
    /\ ret.how = "throw"

(***************************************************************************)
(* taylorSeries and integrate.                                             *)
(***************************************************************************)
RECURSIVE Factorial(_)
Factorial(i) == IF i = 0 THEN 1 ELSE i * Factorial(i - 1)

\* The i-th Taylor coefficient at point: nthDerivative(i) evaluated there,
\* divided by i!.
TaylorCoefficient(i, point) ==
    Div(Evaluate(NthDerivative(this, i).ret.value.expression, point),
        FromInt(Factorial(i)))

\* C9: taylorSeries(point, terms) returns exactly terms coefficients, the
\* i-th being nthDerivative(i) evaluated at point divided by i!, 0! = 1; for
\* Exp(Variable) at 0 they are 1, 1, 1/2, 1/6, 1/24, 1/120.
C9_TaylorCoefficients ==
    (Done("taylorSeries") /\ call.terms >= 0) =>
        /\ ret.how = "return"
        /\ Len(ret.value) = call.terms
        /\ \A i \in 0..(call.terms - 1) :
              ret.value[i + 1] = TaylorCoefficient(i, call.point)
        /\ (this.expression = Exp(Variable) /\ call.point = FromInt(0)) =>
              \A i \in 0..(call.terms - 1) :
                  ret.value[i + 1] = Ratio(1, Factorial(i))

\* C9 witness: the six coefficients of Exp(Variable) at 0 have been returned.
C9_Witness ==
    /\ Done("taylorSeries")
    /\ this.expression = Exp(Variable)
    /\ ret = Returned(<<Ratio(1, 1), Ratio(1, 1), Ratio(1, 2), Ratio(1, 6),
                        Ratio(1, 24), Ratio(1, 120)>>)

InvalidSteps == Thrown("invalid_argument", "Steps must be positive")

\* C10: integrate(a, b, steps) with steps <= 0 fails with InvalidArgument,
\* whatever a and b, without evaluating the function.
C10_NonPositiveStepsRejected ==
    (Done("integrate") /\ call.steps <= 0) =>
        (ret = InvalidSteps /\ calls.evaluate = 0)

\* C10 witness: integrate with steps = 0 has thrown, a and b being distinct.
C10_Witness ==
    /\ Done("integrate")
    /\ call.steps = 0
    /\ call.a # call.b
    /\ ret.how = "throw"

\* Two doubles that print and compare alike: both NaN, or equal numbers.
SameValue(v, w) == (IsNaN(v) /\ IsNaN(w)) \/ NumEq(v, w)

\* f(a + lo*h) + ... + f(a + hi*h), summed by halves.
RECURSIVE InnerSum(_, _, _, _)
InnerSum(a, h, lo, hi) ==
    IF lo > hi THEN Zero(1)
    ELSE IF lo = hi THEN ValueAt(Add(a, Mul(FromInt(lo), h)))
    ELSE LET mid == (lo + hi) \div 2
         IN  Add(InnerSum(a, h, lo, mid), InnerSum(a, h, mid + 1, hi))

\* The composite trapezoidal rule as the formula states it.
Trapezoid(a, b, steps) ==
    LET h == Div(Sub(b, a), FromInt(steps))
    IN  Mul(h, Add(Mul(Ratio(1, 2), Add(ValueAt(a), ValueAt(b))),
                   InnerSum(a, h, 1, steps - 1)))

\* (b*b - a*a)/2, the integral of x over [a, b].
LinearIntegral(a, b) == Div(Sub(Mul(b, b), Mul(a, a)), FromInt(2))

\* |v - w| < 0.01, the tolerance of the tests.
Within(v, w) == Less(Abs(Sub(v, w)), Ratio(1, 100))

\* C11: for every steps >= 1, integrate(a, b, steps) is h*(0.5*(f(a)+f(b)) +
\* the sum of f(a+i*h) for i in 1..steps-1) with h = (b-a)/steps; for
\* Function(Variable) that is (b*b - a*a)/2 for every step count, and
\* integrate(0,1,1000) is 0.5 and integrate(0,2,1000) is 2.0 within 0.01.
C11_TrapezoidRule ==
    (Done("integrate") /\ call.steps >= 1) =>
        /\ ret.how = "return"
        /\ SameValue(ret.value, Trapezoid(call.a, call.b, call.steps))
        /\ this.expression = Variable =>
              /\ NumEq(ret.value, LinearIntegral(call.a, call.b))
              /\ (call.a = FromInt(0) /\ call.b = FromInt(1)) =>
                    Within(ret.value, Ratio(1, 2))
              /\ (call.a = FromInt(0) /\ call.b = FromInt(2)) =>
                    Within(ret.value, FromInt(2))

\* C11 witness: integrate(0, 2, 1000) on Function(Variable) has returned 2.
C11_Witness ==
    /\ Done("integrate")
    /\ this.expression = Variable
    /\ call.a = FromInt(0) /\ call.b = FromInt(2) /\ call.steps = DefaultSteps
    /\ ret = Returned(FromInt(2))

(***************************************************************************)
(* tabulate.                                                               *)
(***************************************************************************)
\* C12: tabulate(start, end, points) with points = 1 fails with
\* InvalidArgument instead of returning a sample computed from a division by
\* a zero step.
C12_DegeneratePointCountRejected ==
    (Done("tabulate") /\ call.points = 1) =>
        (ret.how = "throw" /\ ret.type = "invalid_argument")

\* x_i = start + i*(end - start)/(points - 1).
SampleX(start, end, points, i) ==
    Add(start, Div(Mul(FromInt(i), Sub(end, start)), FromInt(points - 1)))

\* Two pairs of doubles with the same first and the same second component.
SamePair(p, q) == SameValue(p[1], q[1]) /\ SameValue(p[2], q[2])

\* C13: for every points >= 2, tabulate(start, end, points) returns exactly
\* points pairs in increasing index order, the i-th (from 0) being
\* (x_i, evaluate(x_i)) with x_i = start + i*(end-start)/(points-1); the
\* first sample is at start and the last at end.
C13_TabulateSamples ==
    (Done("tabulate") /\ call.points >= 2) =>
        /\ ret.how = "return"
        /\ Len(ret.value) = call.points
        /\ \A i \in 0..(call.points - 1) :
              LET x == SampleX(call.start, call.end, call.points, i)
              IN  SamePair(ret.value[i + 1], <<x, ValueAt(x)>>)
        /\ NumEq(ret.value[1][1], call.start)
        /\ NumEq(ret.value[call.points][1], call.end)

\* C13 witness: three samples of a function that is not constant have been
\* returned, from -1 to 1.
C13_Witness ==
    /\ Done("tabulate")
    /\ call.points = 3
    /\ call.start = FromInt(-1) /\ call.end = FromInt(1)
    /\ ret.how = "return"
    /\ ~NumEq(ret.value[1][2], ret.value[3][2])

(***************************************************************************)
(* evaluate and the failures of the Function layer.                        *)
(***************************************************************************)
NonFinite(v) == IsNaN(v) \/ IsInf(v)

\* A number that is zero or negative.
NonPositive(v) == ~IsNaN(v) /\ (IsZero(v) \/ v.s = -1)

\* The nodes of a tree.
RECURSIVE Subexpressions(_)
Subexpressions(e) ==
    {e} \cup
    CASE e.kind \in {"Constant", "Variable"} -> {}
      [] e.kind \in BinaryKinds ->
            Subexpressions(e.left) \cup Subexpressions(e.right)
      [] e.kind = "Power" -> Subexpressions(e.base)
      [] e.kind \in UnaryKinds -> Subexpressions(e.arg)

\* The node n is evaluated outside its domain at x.
DomainViolation(n, x) ==
    \/ n.kind = "Ln" /\ NonPositive(Evaluate(n.arg, x))
    \/ /\ n.kind = "Power"
       /\ IsZero(Evaluate(n.base, x))
       /\ IntOf(n.exponent) < 0

\* A node outside its domain is e itself or lies under Sum and Product nodes
\* only.
RECURSIVE ViolationUnderSums(_, _)
ViolationUnderSums(e, x) ==
    \/ DomainViolation(e, x)
    \/ /\ e.kind \in BinaryKinds
       /\ ViolationUnderSums(e.left, x) \/ ViolationUnderSums(e.right, x)

ArgumentChecked == {"nthDerivative", "integrate"}

\* C19: a findRoot failure is one of two conditions a caller can tell apart,
\* "Derivative too small" exactly when the last pass met a derivative below
\* tolerance and "did not converge" exactly when the iteration budget ran
\* out, and both differ from the InvalidArgument condition that
\* nthDerivative and integrate raise.
C19_FailuresDistinct ==
    /\ (Done("findRoot") /\ ret.how = "throw") =>
          /\ ret \in {TooSmall, DidNotConverge}
          /\ ret.type # InvalidOrder.type /\ ret.type # InvalidSteps.type
          /\ ret.what = TooSmall.what <=>
                /\ locals.i < call.maxIterations
                /\ Less(Abs(SlopeAt(locals.x)), call.tolerance)
          /\ ret.what = DidNotConverge.what <=>
                ~(locals.i < call.maxIterations)
    /\ (pc = "done" /\ call.method \in ArgumentChecked /\ ret.how = "throw") =>
          /\ ret \in {InvalidOrder, InvalidSteps}
          /\ ret.type # TooSmall.type /\ ret.type # DidNotConverge.type
          /\ ret.what \notin {TooSmall.what, DidNotConverge.what}
    /\ TooSmall.what # DidNotConverge.what

\* C19 witness: after one pass that went on, the second pass has failed on a
\* small derivative with an iteration still left in the budget.
C19_Witness ==
    /\ Done("findRoot")
    /\ ret = TooSmall
    /\ locals.i = 1
    /\ call.maxIterations = 2

(***************************************************************************)
(* Sharing of nodes in memory.                                             *)
(***************************************************************************)
\* The addresses of the node at a and of its descendants.
RECURSIVE NodesOf(_, _)
NodesOf(h, a) ==
    LET children == Children(Load(h, a))
    IN  {a} \cup UNION {NodesOf(h, children[i]) : i \in 1..Len(children)}

\* The member pointers held by the nodes under a that point to the node n.
ReferencesTo(h, a, n) ==
    {<<p, i>> \in NodesOf(h, a) \X (1..2) :
        /\ i <= Len(Children(Load(h, p)))
        /\ Children(Load(h, p))[i] = n}

\* No node under a is pointed to by two member pointers.
Unshared(h, a) ==
    \A n \in NodesOf(h, a) : Cardinality(ReferencesTo(h, a, n)) <= 1

\* The nodes under a and the nodes under b are different objects.
Disjoint(h, a, b) == NodesOf(h, a) \cap NodesOf(h, b) = {}

\* C14: clone() breaks all sharing: the tree returned by e.clone() has no
\* node that is also a node of e, and each of its nodes is pointed to by at
\* most one parent, also when a node of e is pointed to by several parents.
C14_CloneBreaksSharing ==
    Done("clone") =>
        /\ ret.how = "return"
        /\ Disjoint(heap, ret.value, this.expression)
        /\ Unshared(heap, ret.value)

\* C14 witness: a tree whose root holds the same child twice has been cloned.
C14_Witness ==
    /\ Done("clone")
    /\ ret.how = "return"
    /\ ~Unshared(heap, this.expression)
    /\ Load(heap, this.expression).kind \in BinaryKinds
    /\ Load(heap, this.expression).left = Load(heap, this.expression).right

\* C15: cloning preserves meaning: the clone of e denotes the same tree as e
\* (same variants, payloads and child order), prints as the same string and
\* evaluates to the same value at every x.
C15_ClonePreservesMeaning ==
    Done("clone") =>
        LET e == Unfold(heap, this.expression)
            c == Unfold(heap, ret.value)
        IN  /\ c = e
            /\ ToStringOf(c) = ToStringOf(e)
            /\ \A x \in Points :
                  Exact(e, x) =>
                      /\ Exact(c, x)
                      /\ SameValue(Evaluate(c, x), Evaluate(e, x))

\* C15 witness: a tree whose two children differ, and whose value at 1 is
\* known, has been cloned.
C15_Witness ==
    /\ Done("clone")
    /\ ret.how = "return"
    /\ Load(heap, this.expression).kind \in BinaryKinds
    /\ LET e == Unfold(heap, this.expression)
       IN  /\ e.left # e.right
           /\ Exact(e, FromInt(1))

\* The two members of every Sum and Product under a point to trees with no
\* node in common.
BranchesApart(h, a) ==
    \A p \in NodesOf(h, a) :
        Load(h, p).kind \in BinaryKinds =>
            Disjoint(h, Load(h, p).left, Load(h, p).right)

\* A derivative() or nthDerivative(n) call has returned a Function.
Differentiated ==
    /\ pc = "done"
    /\ call.method \in {"derivative", "nthDerivative"}
    /\ ret.how = "return"

\* C16: every derivative() and nthDerivative(n) call, n = 0 included, returns
\* an entirely new tree: no node of the result is a node of the tree it was
\* derived from, and inside the result the copy and the differentiated
\* branch of each product and chain rule have no node in common.
C16_DerivativeIsNewTree ==
    Differentiated =>
        /\ Disjoint(heap, ret.value.expression, this.expression)
        /\ BranchesApart(heap, ret.value.expression)

\* C16 witness: the second derivative of a Product holding the same child
\* twice has been returned.
C16_Witness ==
    /\ Differentiated
    /\ call.method = "nthDerivative"
    /\ call.n = 2
    /\ Load(heap, this.expression).kind = "Product"
    /\ Load(heap, this.expression).left = Load(heap, this.expression).right

\* C16 witness: nthDerivative(0) of a tree with a shared node has returned.
C16_WitnessOrderZero ==
    /\ Differentiated
    /\ call.method = "nthDerivative"
    /\ call.n = 0
    /\ ~Unshared(heap, this.expression)

\* How the call c made on the Function f in the memory h ends, a returned
\* pointer being shown as the tree it points to.
Outcome(h, f, c) ==
    CASE c.method = "clone" ->
            LET out == Call(h, Caller, "clone", f.expression)
            IN  Returned(Unfold(out.heap, out.addr))
      [] c.method = "derivative" ->
            LET d == DerivativeIn(h, Caller, f)
            IN  Returned(ValueOf(d.heap, d.ret.value))
      [] c.method = "nthDerivative" ->
            LET d == NthDerivativeIn(h, Caller, f, c.n)
            IN  IF d.ret.how = "return"
                THEN Returned(ValueOf(d.heap, d.ret.value))
                ELSE d.ret
      [] c.method = "evaluate" -> FunctionEvaluate(ValueOf(h, f), c.x)
      [] c.method = "toString" -> Returned(FunctionToString(ValueOf(h, f)))
      [] c.method = "limit" -> FunctionLimit(ValueOf(h, f), c.point, c.epsilon)
      [] c.method = "integrate" ->
            FunctionIntegrate(ValueOf(h, f), c.a, c.b, c.steps)
      [] c.method = "tabulate" ->
            Tabulate(ValueOf(h, f), c.start, c.end, c.points).ret
      [] c.method = "findRoot" ->
            FindRootIn(h, Caller, f, c.initialGuess, c.tolerance,
                       c.maxIterations).ret
      [] c.method = "taylorSeries" ->
            TaylorSeriesIn(h, Caller, f, c.point, c.terms).ret

\* The outcome r of the call c in the memory h, a returned pointer being
\* shown as the tree it points to.
Shown(h, c, r) ==
    IF r.how # "return" THEN r
    ELSE IF c.method = "clone" THEN Returned(Unfold(h, r.value))
    ELSE IF c.method \in {"derivative", "nthDerivative"}
    THEN Returned(ValueOf(h, r.value))
    ELSE r

\* The Function and every node of its tree are after the step what they were
\* before it.
Unmutated ==
    /\ this' = this
    /\ \A a \in NodesOf(heap, this.expression) : Load(heap', a) = Load(heap, a)

\* The call that has ended with this step, made again on the Function as the
\* step has left it, ends the same way.
Repeatable ==
    (pc = "idle" /\ pc' = "done") =>
        Shown(heap', call', ret') = Outcome(heap', this', call')

\* C17: a Function and its tree are never mutated: over every step of every
\* call, ending in a result or in a failure, the name, the root pointer and
\* every node's variant, payload and children stay what they were, and the
\* same call made again gives the same result.
C17_NeverMutated == [][Unmutated /\ Repeatable]_vars

\* C17 witness: findRoot has failed on a Function whose tree has a shared
\* node.
C17_Witness ==
    /\ Done("findRoot")
    /\ ret.how = "throw"
    /\ ~Unshared(heap, this.expression)

\* The memory in which a call runs alone: the nodes of the Function and no
\* node of any thread.
Alone(h) == [o \in Owners |-> IF o = 0 THEN h[o] ELSE <<>>]

\* The step is a step of the thread t that leaves alone the Function, its
\* nodes, and the nodes and locals of every other thread.
WritesOwnOnly(t) ==
    /\ this' = this
    /\ \A o \in Owners \ {t} : heap'[o] = heap[o]
    /\ \A u \in Threads \ {t} : threads'[u] = threads[u]

\* The finished call of each thread has ended as the same call ends when it
\* runs alone.
AsAlone ==
    \A t \in Threads :
        threads[t].pc = "done" =>
            Shown(heap, threads[t].call, threads[t].ret)
                = Outcome(Alone(heap), this, threads[t].call)

\* C20: concurrent reads are safe: with the calls of several threads on one
\* Function interleaved step by step, no step of a call writes state that
\* another thread can reach, and every call ends as it does running alone.
C20_ConcurrentReadsSafe ==
    /\ []AsAlone
    /\ [][\E t \in Threads : WritesOwnOnly(t)]_vars

\* C20 witness: one thread has finished a second derivative that began and
\* ended while the other thread was inside a taylorSeries call that has
\* allocated nodes.
C20_Witness ==
    \E t, u \in Threads :
        /\ t # u
        /\ threads[t].pc = "done"
        /\ threads[t].call = [method |-> "nthDerivative", n |-> 2]
        /\ threads[u].pc = "running"
        /\ threads[u].call.method = "taylorSeries"
        /\ threads[u].ctl # <<>>
        /\ heap[u] # <<>>

(***************************************************************************)
(* The derivatives of x^2 and 2 * x.                                       *)
(***************************************************************************)
\* The points of the model with the 3 and 5 of the stated examples.
RulePoints == Points \cup {FromInt(3), FromInt(5)}

\* C21: the derivative of Power(Variable, 2) evaluates to 2 * x at every x,
\* 6 at x = 3 and 10 at x = 5, and the derivative of
\* Product(Constant(2), Variable) evaluates to 2 at every x.
C21_PowerAndProductRule ==
    Done("derivative") =>
        /\ this.expression = Power(Variable, FromInt(2)) =>
              /\ \A x \in RulePoints :
                    NumEq(Evaluate(ret.value.expression, x),
                          Mul(FromInt(2), x))
              /\ NumEq(Evaluate(ret.value.expression, FromInt(3)), FromInt(6))
              /\ NumEq(Evaluate(ret.value.expression, FromInt(5)), FromInt(10))
        /\ this.expression = Product(Constant(FromInt(2)), Variable) =>
              \A x \in RulePoints :
                  NumEq(Evaluate(ret.value.expression, x), FromInt(2))

\* C21 witness: the derivative of Power(Variable, 2) has been returned and
\* its value at 3 is 6.
C21_Witness ==
    /\ Done("derivative")
    /\ this.expression = Power(Variable, FromInt(2))
    /\ ret.how = "return"
    /\ Evaluate(ret.value.expression, FromInt(3)) = FromInt(6)

\* C21 witness: the derivative of Product(Constant(2), Variable) has been
\* returned.
C21_WitnessProduct ==
    /\ Done("derivative")
    /\ this.expression = Product(Constant(FromInt(2)), Variable)
    /\ Evaluate(ret.value.expression, FromInt(5)) = FromInt(2)

(***************************************************************************)
(* The rendering as it is stated: infix in parentheses, prefix call, bare  *)
(* literal.                                                                *)
(***************************************************************************)
OperatorSign(kind) == IF kind = "Sum" THEN <<"+">> ELSE <<"*">>

FunctionWord(kind) ==
    CASE kind = "Sin" -> <<"s", "i", "n">>
      [] kind = "Cos" -> <<"c", "o", "s">>
      [] kind = "Exp" -> <<"e", "x", "p">>
      [] kind = "Ln"  -> <<"l", "n">>

\* The numeric literal of the integers of the model's Constants and
\* exponents.
Literal(v) ==
    CASE v = FromInt(-4) -> <<"-", "4">>
      [] v = FromInt(-1) -> <<"-", "1">>
      [] v = FromInt(0)  -> <<"0">>
      [] v = FromInt(1)  -> <<"1">>
      [] v = FromInt(2)  -> <<"2">>
      [] v = FromInt(3)  -> <<"3">>

RECURSIVE Rendering(_)
Rendering(e) ==
    CASE e.kind = "Constant" -> Literal(e.value)
      [] e.kind = "Variable" -> <<"x">>
      [] e.kind \in BinaryKinds ->
            <<"(">> \o Rendering(e.left) \o <<" ">> \o OperatorSign(e.kind)
                    \o <<" ">> \o Rendering(e.right) \o <<")">>
      [] e.kind \in UnaryKinds ->
            FunctionWord(e.kind) \o <<"(">> \o Rendering(e.arg) \o <<")">>
      [] e.kind = "Power" ->
            <<"(">> \o Rendering(e.base) \o <<")", "^">> \o Literal(e.exponent)

\* C23: toString renders every Sum and Product as "(" left " op " right ")"
\* with op + or *, every Sin, Cos, Exp and Ln as "fn(" arg ")", Variable as
\* x and Constant as its numeric literal, recursively for the whole tree,
\* and Function.toString is the name, "(x) = " and that rendering.
C23_ToStringRendering ==
    Done("toString") =>
        /\ ret = Returned(this.name \o <<"(", "x", ")", " ", "=", " ">>
                                    \o Rendering(this.expression))
        /\ \A n \in Subexpressions(this.expression) :
              ToStringOf(n) = Rendering(n)

\* C23 witness: toString of the Function f of ln(x) + 2 has returned
\* "f(x) = (ln(x) + 2)".
C23_Witness ==
    /\ Done("toString")
    /\ this = MathFunction(Sum(Ln(Variable), Constant(FromInt(2))), <<"f">>)
    /\ ret = Returned(<<"f", "(", "x", ")", " ", "=", " ", "(", "l", "n", "(",
                        "x", ")", " ", "+", " ", "2", ")">>)

(***************************************************************************)
(* SparseList.                                                             *)
(***************************************************************************)
\* The step is a call of the method, from its start to its end.
ListCalls(method) == pc = "idle" /\ pc' = "done" /\ call'.method = method

\* The value last set at the index i, or the default value if none was.
LastSet(i) ==
    IF i \in DOMAIN calls.written THEN calls.written[i]
    ELSE this.defaultValue

\* C24: after any sequence of set calls, get(i) for i < size() returns the
\* value most recently set at i, or the default value if i was never set,
\* and get(i) for i >= size() throws out_of_range and leaves the list
\* unchanged.
C24_GetReturnsLastSet ==
    [][(ListCalls("get") /\ calls.setsOnly) =>
          LET i == call'.index
          IN  /\ i < this.listSize => ret' = Returned(LastSet(i))
              /\ i >= this.listSize =>
                    /\ ret'.how = "throw"
                    /\ ret'.type = "out_of_range"
              /\ this' = this]_vars

\* C24 witness: get(0) has returned the default value 0 that index 0 was
\* set to after it had held another value, the list now storing nothing.
C24_Witness ==
    /\ Done("get")
    /\ calls.setsOnly
    /\ call.index = 0
    /\ 0 \in DOMAIN calls.written
    /\ this.defaultValue = 0
    /\ this.data = EmptyMap
    /\ ret = Returned(0)

\* C24 witness: get at the index size() has thrown.
C24_WitnessThrows ==
    /\ Done("get")
    /\ calls.setsOnly
    /\ call.index = this.listSize
    /\ this.listSize > 0
    /\ ret.how = "throw"

\* The indices below size() whose element differs from the default value.
NonDefault(l) ==
    {i \in 0..(l.listSize - 1) :
        ListGetOutcome(l, i).value # l.defaultValue}

\* C25: in every reachable state of a SparseList, nonZeroCount() is the
\* number of indices i < size() whose element get(i) differs from the
\* default value, and size() is the number of elements, defaults included.
C25_NonZeroCountCountsNonDefault ==
    /\ Cardinality(DOMAIN this.data) = Cardinality(NonDefault(this))
    /\ Done("nonZeroCount") => ret = Returned(Cardinality(NonDefault(this)))
    /\ Done("size") =>
          /\ ret = Returned(this.listSize)
          /\ \A i \in ListIndices :
                ListGetOutcome(this, i).how = "return" <=> i < ret.value

\* C26: set(index, value) throws out_of_range when the index is not below
\* size(), as get does, and leaves the list as it was.
C26_SetRejectsInvalidIndex ==
    [][(ListCalls("set") /\ call'.index >= this.listSize) =>
          /\ ret'.how = "throw"
          /\ ret'.type = "out_of_range"
          /\ this' = this]_vars

\* The n-th term as the recurrence defines it: an initial term, or the
\* relation applied to the k terms before it, term n - k first.
RECURSIVE TermOf(_, _)
TermOf(s, n) ==
    LET k == Len(s.initialTerms)
    IN  IF n <= k THEN s.initialTerms[n]
        ELSE ApplyRelation(s.recurrenceRelation,
                 [j \in 1..k |-> TermOf(s, n - k + j - 1)])

SeqCalls == pc = "idle" /\ pc' = "done" /\ call'.method = "getTerm"

\* C27: getTerm(n) of a RecursiveSequence with k initial terms returns the
\* n-th initial term for 1 <= n <= k and, for n > k, the relation applied
\* to the k terms before it (term n - k first, term n - 1 last); getTerm(n)
\* with n < 1 throws invalid_argument.
C27_GetTermFollowsRecurrence ==
    [][SeqCalls =>
          LET n == call'.n
          IN  /\ n < 1 =>
                    /\ ret'.how = "throw"
                    /\ ret'.type = "invalid_argument"
              /\ n >= 1 => ret' = Returned(TermOf(this, n))]_vars

\* C27 witness: the sixth Fibonacci number, 8, has been returned.
C27_Witness ==
    /\ Done("getTerm")
    /\ this.recurrenceRelation = "Fibonacci"
    /\ this.initialTerms = Doubles(<<1, 1>>)
    /\ call.n = 6
    /\ ret = Returned(FromInt(8))
    /\ this.cache = Doubles(<<1, 1, 2, 3, 5, 8>>)

\* C27 witness: getTerm(0) has thrown.
C27_WitnessThrows ==
    /\ Done("getTerm")
    /\ call.n = 0
    /\ ret.how = "throw"

\* The cache holds the initial terms and then, entry by entry, the relation
\* applied to the k entries before.
WellFormed(s) ==
    LET k == Len(s.initialTerms)
    IN  /\ Len(s.cache) >= k
        /\ SubSeq(s.cache, 1, k) = s.initialTerms
        /\ \A i \in (k + 1)..Len(s.cache) :
              s.cache[i] = ApplyRelation(s.recurrenceRelation,
                                         SubSeq(s.cache, i - k, i - 1))

\* The sequence as constructed, nothing computed yet.
Fresh(s) == [s EXCEPT !.cache = s.initialTerms]

\* One call keeps every entry of the cache, leaves the cache alone when it
\* throws, and ends as the same call on a sequence never asked before.
CacheStep ==
    SeqCalls =>
        /\ Len(this'.cache) >= Len(this.cache)
        /\ SubSeq(this'.cache, 1, Len(this.cache)) = this.cache
        /\ ret'.how = "throw" => this' = this
        /\ ret' = GetTermOutcome(Fresh(this), call'.n)
        /\ Fresh(this') = Fresh(this)

\* C30: over any sequence of getTerm calls, failing ones included, the memo
\* cache never shrinks, starts with the k initial terms, has every later
\* entry equal to the relation applied to the k entries before it, and
\* getTerm(n) returns the same value whatever calls came before; a failing
\* call leaves the cache unchanged.
C30_CacheGrowsConsistently ==
    /\ []WellFormed(this)
    /\ [][CacheStep]_vars

\* C30 witness: a term below the end of a cache filled by earlier calls has
\* been returned, the cache keeping its length.
C30_Witness ==
    /\ Done("getTerm")
    /\ call.n > Len(this.initialTerms)
    /\ call.n < Len(this.cache)
    /\ ret.how = "return"

\* C30 witness: a call has failed on a sequence whose cache earlier calls
\* had extended.
C30_WitnessFails ==
    /\ Done("getTerm")
    /\ call.n < 1
    /\ Len(this.cache) > Len(this.initialTerms)
    /\ ret.how = "throw"

\* The number of nodes of the tree e.
RECURSIVE NodeCount(_)
NodeCount(e) ==
    CASE e.kind \in {"Constant", "Variable"} -> 1
      [] e.kind \in {"Sum", "Product"} ->
            1 + NodeCount(e.left) + NodeCount(e.right)
      [] e.kind = "Power" -> 1 + NodeCount(e.base)
      [] OTHER -> 1 + NodeCount(e.arg)

\* True when e has a Product, Power, Sin, Cos, Exp or Ln node.
RECURSIVE Growing(_)
Growing(e) ==
    CASE e.kind \in {"Constant", "Variable"} -> FALSE
      [] e.kind = "Sum" -> Growing(e.left) \/ Growing(e.right)
      [] OTHER -> TRUE

\* C28: the derivative of a tree has at least as many nodes as the tree and
\* strictly more when the tree has a Product, Power, Sin, Cos, Exp or Ln
\* node; the derivative of such a tree has such a node again, so that every
\* further differentiation adds nodes: the n-th derivative has at least n
\* nodes more.
C28_DerivativeNeverShrinks ==
    /\ Done("derivative") =>
          LET e == this.expression
              d == ret.value.expression
          IN  /\ NodeCount(d) >= NodeCount(e)
              /\ Growing(e) =>
                    /\ NodeCount(d) > NodeCount(e)
                    /\ Growing(d)
                    /\ NodeCount(Derivative(d)) > NodeCount(d)
    /\ (Done("nthDerivative") /\ ret.how = "return") =>
          LET e == this.expression
              d == ret.value.expression
          IN  /\ NodeCount(d) >= NodeCount(e)
              /\ Growing(e) =>
                    /\ NodeCount(d) >= NodeCount(e) + call.n
                    /\ call.n > 0 => Growing(d)

\* C28 witness: the second derivative of Product(Constant, Variable) has
\* been returned with more than two nodes more than the three of the tree.
C28_Witness ==
    /\ Done("nthDerivative")
    /\ call.n = 2
    /\ ret.how = "return"
    /\ this.expression.kind = "Product"
    /\ NodeCount(this.expression) = 3
    /\ NodeCount(ret.value.expression) > 5

\* C28 witness: the derivative of a sum of two leaves has been returned,
\* three nodes as the sum.
C28_WitnessSameSize ==
    /\ Done("derivative")
    /\ this.expression.kind = "Sum"
    /\ NodeCount(this.expression) = 3
    /\ NodeCount(ret.value.expression) = 3

\* f and its derivative at the x a findRoot call holds.
FAt(l) == Evaluate(this.expression, l.x)
DfAt(l) == Evaluate(l.deriv.expression, l.x)

\* C29: a pass of findRoot checks the derivative before it takes the Newton
\* step and compares the step with the tolerance: with |f'(x)| < tolerance
\* at the current x the call throws "Derivative too small", also when
\* f(x) = 0 there, as for Power(Variable, 2) from the guess 0; no value is
\* returned from such an x.
C29_DerivativeCheckedFirst ==
    [][(/\ pc = "findRoot"
        /\ LoopContinues(locals.i, call.maxIterations)
        /\ Less(Abs(DfAt(locals)), call.tolerance)) =>
           /\ pc' = "done"
           /\ ret' = Thrown("runtime_error", "Derivative too small")
           /\ locals' = locals]_vars

\* C29 witness: findRoot of Power(Variable, 2) from the guess 0 has thrown
\* "Derivative too small" in its first pass, at the root 0.
C29_Witness ==
    /\ Done("findRoot")
    /\ this.expression = Power(Variable, FromInt(2))
    /\ call.initialGuess = FromInt(0)
    /\ locals.i = 0
    /\ FAt(locals) = FromInt(0)
    /\ ret = Thrown("runtime_error", "Derivative too small")

\* |v - 2| < 1e-6 for the value v a call returned.
NearTwo(v) ==
    WideLess(WideAbs(WideSub(v, WideOf(FromInt(2)))),
             WideOf(DefaultTolerance))

\* C22: findRoot(3.0) of the Function of Sum(Power(Variable, 2),
\* Constant(-4)), with the default tolerance 1e-6 and the default 100
\* iterations, returns a value within 1e-6 of 2; it throws neither
\* "Derivative too small" nor "Root finding did not converge".
C22_RootOfDemo ==
    /\ (Done("findRoot") /\ this = RootFunction /\ call = RootCall) =>
          /\ ret.how = "return"
          /\ NearTwo(ret.value)
    /\ (pc = "findRoot" /\ this = RootFunction /\ call = RootCall) =>
          LoopContinues(locals.i, call.maxIterations)

\* C22 witness: the call has returned from its fifth pass.
C22_Witness ==
    /\ Done("findRoot")
    /\ this = RootFunction
    /\ call = RootCall
    /\ locals.i = 4
    /\ ret.how = "return"
    /\ NearTwo(ret.value)

=============================================================================
